---- MODULE Spec2Model ----
(***************************************************************************)
(* A model of the DNG raw encoder of rpicam-apps:                          *)
(*   - the DngEncoder thread harness (EncodeBuffer, encodeThread,          *)
(*     outputThread, the destructor)            specification Spec/FairSpec*)
(*   - the bit-unpacking routines               specification SpecUnpack   *)
(*   - encodeDNG / dng_save, step by step       specification SpecEncode   *)
(***************************************************************************)
EXTENDS Integers, Sequences, FiniteSets, TLC

\* ------------------------------------------------------------------ bounds
\* Frames submitted through EncodeBuffer in one run.
MaxFrames == 3
\* Encode worker threads (NUM_ENC_THREADS of the encoder's header).
NumEncThreads == 2
\* Rows of the frames handed to the unpack routines.
MaxRows == 2

MaxWidth == 9

VARIABLES
    \* ---- DngEncoder (src/encoder/dng_encoder.cpp:520-971)
    encode_queue_,      \* queue of EncodeItem, each item its index
    index_,             \* next index EncodeBuffer hands out
    output_queue_,      \* per-worker queue of OutputItem, each item its index
    abortEncode_,
    abortOutput_,
    encPc,              \* per worker: "wait" | "encoding" | "exited"
    encode_item,        \* per worker: the item taken from encode_queue_ (-1: none)
    outPc,              \* output thread: "scan" | "got_item" | "exited"
    outItem,            \* output thread's local item (-1: none)
    outIndex,           \* output thread's local index
    delivered,          \* indices handed to output_ready_callback_, in call order
    failed,             \* indices whose encodeDNG threw
    dtorPc,             \* "alive" | "joinEncode" | "joinOutput" | "closed"
    \* ---- the unpack routines (src/encoder/dng_encoder.cpp:86-196)
    u_pc,               \* "off" | "input" | "done"
    u_in,               \* [bits, info: [width, height, stride], vals, src]
    u_out,              \* [routine, dest, dest16]
    \* ---- one run of encodeDNG / dng_save (src/encoder/dng_encoder.cpp:552-876)
    e_pc,               \* "off" | "start" | "unpacked" | "thumb_fields" | "thumb_rows"
                        \* | "main_fields" | "main_rows" | "exif" | "patch" | "finish"
                        \* | "returned" | "thrown" | "crashed" | "pushed" | "skipped"
    e_cfg,              \* [variant, fmt, force8bit, force10bit, info, roi, meta]
    e_st,               \* the locals of the run and what it has produced
    e_log,              \* the TIFF library calls made so far, in order
    \* ---- the block decompressor (src/encoder/dng_encoder.cpp:222-250, 418-500)
    d_pc,               \* "off" | "input" | "done"
    d_in,               \* [kind, q, qmode] or [kind, info, src, beyond]
    d_out,              \* [value] or [dest, reads]
    \* ---- Matrix (src/encoder/dng_encoder.cpp:253-300)
    m_pc,               \* "off" | "input" | "done"
    m_in,               \* the nine coefficients m[0..8], row by row
    m_out,              \* [T, C, Adj, Det, MAdj, Inv, MInv]
    \* ---- NullEncoder (src/unnamed/part_007)
    n_queue,            \* output_queue_, each item its submission number
    n_abort,            \* abort_
    n_mutex,            \* output_mutex_: "free" | "thread" | "caller"
    n_pc,               \* output thread: "lock" | "check" | "waited" | "got_item" | "input_done"
                        \* | "exited"
    n_item,             \* output thread's local item (0: none)
    n_delivered,        \* submission numbers handed to output_ready_callback_, in order
    n_submitted,        \* EncodeBuffer calls so far
    n_dtor,             \* "alive" | "join" | "closed"
    \* ---- one record each, with its position in the field pc ("off": not running)
    loop,               \* event_loop of rpicam-raw (src/apps/rpicam_raw.cpp, src/unnamed/part_004)
    tbuf,               \* a TiffMemoryBuffer and the writes made to it (dng_encoder.cpp:303-379)
    grey,               \* one thumbnail sample (dng_encoder.cpp:737-747)
    gpio,               \* GpioHandler (src/unnamed/part_001)
    exif,               \* create_exif_data (src/encoder/mjpeg_encoder.cpp:133-157)
    fout                \* FileOutput (src/output/file_output.cpp)

threadVars == <<encode_queue_, index_, output_queue_, abortEncode_, abortOutput_,
                encPc, encode_item, outPc, outItem, outIndex, delivered, failed,
                dtorPc>>

unpackVars == <<u_pc, u_in, u_out>>

encVars == <<e_pc, e_cfg, e_st, e_log>>

decompVars == <<d_pc, d_in, d_out>>

matrixVars == <<m_pc, m_in, m_out>>

nullVars == <<n_queue, n_abort, n_mutex, n_pc, n_item, n_delivered, n_submitted, n_dtor>>

auxVars == <<loop, tbuf, grey, gpio, exif, fout>>

baseVars == <<threadVars, unpackVars, encVars, decompVars, matrixVars, nullVars>>

nonLoopVars == <<baseVars, tbuf, grey, gpio, exif, fout>>

nonTbufVars == <<baseVars, loop, grey, gpio, exif, fout>>

nonGreyVars == <<baseVars, loop, tbuf, gpio, exif, fout>>

nonGpioVars == <<baseVars, loop, tbuf, grey, exif, fout>>

nonExifVars == <<baseVars, loop, tbuf, grey, gpio, fout>>

nonFoutVars == <<baseVars, loop, tbuf, grey, gpio, exif>>

nonThreadVars == <<unpackVars, encVars, decompVars, matrixVars, nullVars, auxVars>>

nonUnpackVars == <<threadVars, encVars, decompVars, matrixVars, nullVars, auxVars>>

nonEncVars == <<threadVars, unpackVars, decompVars, matrixVars, nullVars, auxVars>>

nonDecompVars == <<threadVars, unpackVars, encVars, matrixVars, nullVars, auxVars>>

nonMatrixVars == <<threadVars, unpackVars, encVars, decompVars, nullVars, auxVars>>

nonNullVars == <<threadVars, unpackVars, encVars, decompVars, matrixVars, auxVars>>

vars == <<baseVars, auxVars>>

Workers == 0 .. (NumEncThreads - 1)

\* ------------------------------------------------------------- DngEncoder
\* DngEncoder::DngEncoder: flags false, index_ 0, the threads started.
ThreadInit ==
    /\ encode_queue_ = <<>>
    /\ index_ = 0
    /\ output_queue_ = [n \in Workers |-> <<>>]
    /\ abortEncode_ = FALSE
    /\ abortOutput_ = FALSE
    /\ encPc = [n \in Workers |-> "wait"]
    /\ encode_item = [n \in Workers |-> -1]
    /\ outPc = "scan"
    /\ outItem = -1
    /\ outIndex = 0
    /\ delivered = <<>>
    /\ failed = {}
    /\ dtorPc = "alive"

\* EncodeBuffer: under encode_mutex_, push an item carrying index_++.
\* Calls stop when the destructor starts (the object is being destroyed).
EncodeBuffer ==
    /\ dtorPc = "alive"
    /\ index_ < MaxFrames
    /\ encode_queue_' = Append(encode_queue_, index_)
    /\ index_' = index_ + 1
    /\ UNCHANGED <<nonThreadVars, output_queue_, abortEncode_, abortOutput_, encPc, encode_item,
                   outPc, outItem, outIndex, delivered, failed, dtorPc>>

\* encodeThread taking the front item without the pop()
EncodeTakeNoPop(n) ==
    /\ encPc[n] = "wait"
    /\ encode_queue_ # <<>>
    /\ encode_item' = [encode_item EXCEPT ![n] = Head(encode_queue_)]
    /\ encPc' = [encPc EXCEPT ![n] = "encoding"]
    /\ UNCHANGED <<nonThreadVars, encode_queue_, index_, output_queue_, abortEncode_,
                   abortOutput_, outPc, outItem, outIndex, delivered, failed, dtorPc>>

\* encodeThread, the locked section: take the front item.
EncodeTake(n) ==
    /\ encPc[n] = "wait"
    /\ encode_queue_ # <<>>
    /\ encode_item' = [encode_item EXCEPT ![n] = Head(encode_queue_)]
    /\ encode_queue_' = Tail(encode_queue_)
    /\ encPc' = [encPc EXCEPT ![n] = "encoding"]
    /\ UNCHANGED <<nonThreadVars, index_, output_queue_, abortEncode_, abortOutput_,
                   outPc, outItem, outIndex, delivered, failed, dtorPc>>

\* encodeThread, the locked section: abortEncode_ && encode_queue_.empty() -> return.
EncodeMayExitNoDrain == abortEncode_

EncodeMayExit == abortEncode_ /\ encode_queue_ = <<>>

EncodeExit(n) ==
    /\ encPc[n] = "wait"
    /\ EncodeMayExit
    /\ encPc' = [encPc EXCEPT ![n] = "exited"]
    /\ UNCHANGED <<nonThreadVars, encode_queue_, index_, output_queue_, abortEncode_, abortOutput_,
                   encode_item, outPc, outItem, outIndex, delivered, failed, dtorPc>>

\* encodeThread: encodeDNG returned; push the OutputItem on the worker's own queue.
EncodePush(n) ==
    /\ encPc[n] = "encoding"
    /\ output_queue_' = [output_queue_ EXCEPT ![n] = Append(@, encode_item[n])]
    /\ encPc' = [encPc EXCEPT ![n] = "wait"]
    /\ UNCHANGED <<nonThreadVars, encode_queue_, index_, abortEncode_, abortOutput_, encode_item,
                   outPc, outItem, outIndex, delivered, failed, dtorPc>>

\* encodeThread: encodeDNG threw; the catch block logs and continues, nothing is pushed.
EncodeThrow(n) ==
    /\ encPc[n] = "encoding"
    /\ failed' = failed \cup {encode_item[n]}
    /\ encPc' = [encPc EXCEPT ![n] = "wait"]
    /\ UNCHANGED <<nonThreadVars, encode_queue_, index_, output_queue_, abortEncode_, abortOutput_,
                   encode_item, outPc, outItem, outIndex, delivered, dtorPc>>

\* outputThread: !q.empty() && q.front().index == index
FrontMatchesAny(q, idx) == q # <<>>

FrontMatches(q, idx) == q # <<>> /\ Head(q) = idx

\* outputThread: the scan over output_queue_ takes the first queue whose front matches.
OutputTake ==
    /\ outPc = "scan"
    /\ \E n \in Workers :
         /\ FrontMatches(output_queue_[n], outIndex)
         /\ \A m \in Workers : m < n => ~FrontMatches(output_queue_[m], outIndex)
         /\ outItem' = Head(output_queue_[n])
         /\ output_queue_' = [output_queue_ EXCEPT ![n] = Tail(@)]
    /\ outPc' = "got_item"
    /\ UNCHANGED <<nonThreadVars, encode_queue_, index_, abortEncode_, abortOutput_, encPc,
                   encode_item, outIndex, delivered, failed, dtorPc>>

\* outputThread, got_item: the callbacks, free, index++.
OutputDeliver ==
    /\ outPc = "got_item"
    /\ delivered' = Append(delivered, outItem)
    /\ outIndex' = outIndex + 1
    /\ outPc' = "scan"
    /\ UNCHANGED <<nonThreadVars, encode_queue_, index_, output_queue_, abortEncode_, abortOutput_,
                   encPc, encode_item, outItem, failed, dtorPc>>

\* outputThread: abort stays true only if abortOutput_ and every queue is empty.
OutputAbort == abortOutput_ /\ \A n \in Workers : output_queue_[n] = <<>>

\* outputThread: no queue front matched and abort is set -> return.
OutputExit ==
    /\ outPc = "scan"
    /\ \A n \in Workers : ~FrontMatches(output_queue_[n], outIndex)
    /\ OutputAbort
    /\ outPc' = "exited"
    /\ UNCHANGED <<nonThreadVars, encode_queue_, index_, output_queue_, abortEncode_, abortOutput_,
                   encPc, encode_item, outItem, outIndex, delivered, failed, dtorPc>>

\* ~DngEncoder: abortEncode_ = true
DtorStart ==
    /\ dtorPc = "alive"
    /\ abortEncode_' = TRUE
    /\ dtorPc' = "joinEncode"
    /\ UNCHANGED <<nonThreadVars, encode_queue_, index_, output_queue_, abortOutput_, encPc,
                   encode_item, outPc, outItem, outIndex, delivered, failed>>

\* ~DngEncoder: every encode_thread_[i].join() returned; abortOutput_ = true
DtorJoinEncode ==
    /\ dtorPc = "joinEncode"
    /\ \A n \in Workers : encPc[n] = "exited"
    /\ abortOutput_' = TRUE
    /\ dtorPc' = "joinOutput"
    /\ UNCHANGED <<nonThreadVars, encode_queue_, index_, output_queue_, abortEncode_, encPc,
                   encode_item, outPc, outItem, outIndex, delivered, failed>>

\* ~DngEncoder: output_thread_.join() returned
DtorJoinOutput ==
    /\ dtorPc = "joinOutput"
    /\ outPc = "exited"
    /\ dtorPc' = "closed"
    /\ UNCHANGED <<nonThreadVars, encode_queue_, index_, output_queue_, abortEncode_, abortOutput_,
                   encPc, encode_item, outPc, outItem, outIndex, delivered, failed>>

EncodeThreadStep(n) ==
    EncodeTake(n) \/ EncodeExit(n) \/ EncodePush(n) \/ EncodeThrow(n)

OutputThreadStep == OutputTake \/ OutputDeliver \/ OutputExit

\* ------------------------------------------------------ the unpack routines
\* C integer operators on non-negative values.
Shl(a, n) == a * (2 ^ n)

Shr(a, n) == a \div (2 ^ n)

\* a & (2^n - 1)
LowBits(a, n) == a % (2 ^ n)

RECURSIVE BitOr(_, _)
BitOr(a, b) ==
    IF a = 0 THEN b
    ELSE IF b = 0 THEN a
    ELSE (IF a % 2 = 1 \/ b % 2 = 1 THEN 1 ELSE 0) + 2 * BitOr(a \div 2, b \div 2)

\* conversion to uint8_t / uint16_t
U8(a) == a % 256

U16(a) == a % 65536

\* info.width & ~(m - 1), m a power of two
AlignDown(w, m) == w - (w % m)

\* iterations of  for (x = 0; x < limit; x += step)
LoopCount(limit, step) == (limit + step - 1) \div step

\* src[i], i counted from 0
SrcAt(src, i) == src[i + 1]

\* unpack_10bit: val1..val4 of one group, p = ptr[0..4]
Unpack10ValsHighPairFirst(p) ==
    << U16(BitOr(Shl(p[1], 2), LowBits(Shr(p[5], 6), 2))),
       U16(BitOr(Shl(p[2], 2), LowBits(Shr(p[5], 4), 2))),
       U16(BitOr(Shl(p[3], 2), LowBits(Shr(p[5], 2), 2))),
       U16(BitOr(Shl(p[4], 2), LowBits(Shr(p[5], 0), 2))) >>

Unpack10Vals(p) ==
    << U16(BitOr(Shl(p[1], 2), LowBits(Shr(p[5], 0), 2))),
       U16(BitOr(Shl(p[2], 2), LowBits(Shr(p[5], 2), 2))),
       U16(BitOr(Shl(p[3], 2), LowBits(Shr(p[5], 4), 2))),
       U16(BitOr(Shl(p[4], 2), LowBits(Shr(p[5], 6), 2))) >>

\* unpack_10bit / unpack_12bit_to_10bit: byte1..byte5 from four 10-bit values
Pack10Bytes(v) ==
    << U8(Shr(v[1], 2)),
       U8(BitOr(Shl(LowBits(v[1], 2), 6), Shr(v[2], 4))),
       U8(BitOr(Shl(LowBits(v[2], 4), 4), Shr(v[3], 6))),
       U8(BitOr(Shl(LowBits(v[3], 6), 2), Shr(v[4], 8))),
       U8(LowBits(v[4], 8)) >>

\* unpack_12bit*: val1, val2 of one 3-byte group, p = ptr[0..2]
Unpack12ValsSwappedNibbles(p) ==
    << U16(BitOr(Shl(p[1], 4), LowBits(Shr(p[3], 4), 4))),
       U16(BitOr(Shl(p[2], 4), LowBits(Shr(p[3], 0), 4))) >>

Unpack12Vals(p) ==
    << U16(BitOr(Shl(p[1], 4), LowBits(Shr(p[3], 0), 4))),
       U16(BitOr(Shl(p[2], 4), LowBits(Shr(p[3], 4), 4))) >>

\* unpack_12bit_to_10bit: val1..val4 of two 3-byte groups, p = ptr[0..5]
Unpack12Vals4(p) ==
    Unpack12Vals(<<p[1], p[2], p[3]>>) \o Unpack12Vals(<<p[4], p[5], p[6]>>)

\* unpack_12bit: byte1..byte3 from two 12-bit values
Pack12Bytes(v) ==
    << U8(Shr(v[1], 4)),
       U8(BitOr(Shl(LowBits(v[1], 4), 4), Shr(v[2], 8))),
       U8(LowBits(v[2], 8)) >>

\* ((float)val / 4096.f) * outMax, converted to an integer type: the quotient by
\* 4096 and the product by a power of two are exact in binary floating point for
\* val < 2^24, and the conversion truncates.
ScaleDownBy4095(val, outMax) == (val * outMax) \div 4095

ScaleDown(val, outMax) == (val * outMax) \div 4096

\* unpack_12bit_to_8bit: the two bytes stored for a group
Scale8Bytes(v) == << U8(ScaleDown(v[1], 256)), U8(ScaleDown(v[2], 256)) >>

\* unpack_12bit_to_10bit: the five bytes stored for a group
Scale10Bytes(v) ==
    Pack10Bytes([k \in 1 .. 4 |-> U16(ScaleDown(v[k], 1024))])

\* The values one loop iteration of a routine decodes from its group p.
GroupVals(routine, p) ==
    CASE routine = "unpack_10bit" -> Unpack10Vals(p)
      [] routine = "unpack_12bit_to_10bit" -> Unpack12Vals4(p)
      [] OTHER -> Unpack12Vals(p)

\* The bytes one loop iteration of a routine appends to dest for the values v.
GroupBytes(routine, v) ==
    CASE routine = "unpack_10bit" -> Pack10Bytes(v)
      [] routine = "unpack_12bit" -> Pack12Bytes(v)
      [] routine = "unpack_12bit_to_8bit" -> Scale8Bytes(v)
      [] OTHER -> Scale10Bytes(v)

\* The row/group loops shared by the packed routines: for each row y (src advanced
\* by info.stride) and each x = 0, step, ... < w_align (ptr advanced by inBytes),
\* the group is decoded, outBytes bytes are appended to dest and the group's
\* values to dest16Bit.
UnpackLoop(routine, src, info, w_align, step, inBytes, outBytes) ==
    LET ng == LoopCount(w_align, step)
        grp(y, g) ==
            [k \in 1 .. inBytes |-> SrcAt(src, y * info.stride + g * inBytes + (k - 1))]
        vals == [gi \in 0 .. (info.height * ng - 1) |->
                    GroupVals(routine, grp(gi \div ng, gi % ng))]
        bytes == [gi \in 0 .. (info.height * ng - 1) |-> GroupBytes(routine, vals[gi])]
    IN  [ dest   |-> [i \in 1 .. (info.height * ng * outBytes) |->
                        bytes[(i - 1) \div outBytes][((i - 1) % outBytes) + 1]],
          dest16 |-> [i \in 1 .. (info.height * ng * step) |->
                        vals[(i - 1) \div step][((i - 1) % step) + 1]] ]

\* The loop header of each packed routine: w_align, the x increment (step), the
\* ptr increment (inBytes) and the bytes stored to dest per iteration (outBytes).
\* unpack_12bit_to_10bit aligns the width to 2 but advances x by 4.
LoopParams(routine, info) ==
    CASE routine = "unpack_10bit" ->
            [w_align |-> AlignDown(info.width, 4), step |-> 4, inBytes |-> 5, outBytes |-> 5]
      [] routine = "unpack_12bit" ->
            [w_align |-> AlignDown(info.width, 2), step |-> 2, inBytes |-> 3, outBytes |-> 3]
      [] routine = "unpack_12bit_to_8bit" ->
            [w_align |-> AlignDown(info.width, 2), step |-> 2, inBytes |-> 3, outBytes |-> 2]
      [] OTHER ->
            [w_align |-> AlignDown(info.width, 2), step |-> 4, inBytes |-> 6, outBytes |-> 5]

PackedRoutines ==
    {"unpack_10bit", "unpack_12bit", "unpack_12bit_to_8bit", "unpack_12bit_to_10bit"}

unpack_10bit(src, info) ==
    LET p == LoopParams("unpack_10bit", info)
    IN  UnpackLoop("unpack_10bit", src, info, p.w_align, p.step, p.inBytes, p.outBytes)

unpack_12bit(src, info) ==
    LET p == LoopParams("unpack_12bit", info)
    IN  UnpackLoop("unpack_12bit", src, info, p.w_align, p.step, p.inBytes, p.outBytes)

unpack_12bit_to_8bit(src, info) ==
    LET p == LoopParams("unpack_12bit_to_8bit", info)
    IN  UnpackLoop("unpack_12bit_to_8bit", src, info, p.w_align, p.step, p.inBytes, p.outBytes)

unpack_12bit_to_10bit(src, info) ==
    LET p == LoopParams("unpack_12bit_to_10bit", info)
    IN  UnpackLoop("unpack_12bit_to_10bit", src, info, p.w_align, p.step, p.inBytes, p.outBytes)

\* ---- inputs: frames of samples in the sensor's packed layout
SampleValues(bits) ==
    IF bits = 10 THEN {0, 341, 682, 1023} ELSE {0, 1365, 2730, 4095}

\* a w x h frame built from four base samples, rotated from group to group and
\* from row to row
Frame(base, w, h) ==
    [i \in 1 .. (w * h) |->
        LET x == (i - 1) % w
            y == (i - 1) \div w
        IN  base[((x + y + (x \div 4)) % 4) + 1]]

\* The sensor's packed layout (CSI-2): per group the 8 MSBs of each pixel, then one
\* byte with the LSBs of all of them, pixel 0 lowest; rows are stride bytes long,
\* the bytes after the packed row hold fill.
PackSrc(bits, vals, info, fill) ==
    LET w == info.width
        n == IF bits = 10 THEN 4 ELSE 2
        lsb == bits - 8
        rowBytes == (w \div n) * (n + 1)
    IN  [i \in 1 .. (info.height * info.stride) |->
            LET y == (i - 1) \div info.stride
                o == (i - 1) % info.stride
                g == o \div (n + 1)
                b == o % (n + 1)
                v(j) == vals[y * w + n * g + j]
            IN  IF o >= rowBytes THEN fill
                ELSE IF b < n THEN v(b + 1) \div (2 ^ lsb)
                ELSE IF n = 4
                     THEN (v(1) % 4) + 4 * (v(2) % 4) + 16 * (v(3) % 4) + 64 * (v(4) % 4)
                     ELSE (v(1) % 16) + 16 * (v(2) % 16)]

UnpackInput(bits, vals, w, h, pad, fill) ==
    LET info == [width |-> w, height |-> h,
                 stride |-> ((w * bits) \div 8) + pad]
    IN  [bits |-> bits, info |-> info, vals |-> vals,
         src |-> PackSrc(bits, vals, info, fill)]

\* Inputs: frames of rotated base samples, unpadded and padded rows; and, for every
\* sample value of each depth, one group that holds it next to its successor.
UnpackInit ==
    /\ u_pc = "input"
    /\ \E bits \in {10, 12} :
         \/ \E base \in [1 .. 4 -> SampleValues(bits)], w \in {4, 8}, h \in 1 .. MaxRows,
               pf \in {<<0, 0>>, <<2, 255>>} :
              u_in = UnpackInput(bits, Frame(base, w, h), w, h, pf[1], pf[2])
         \/ \E v \in 0 .. ((2 ^ bits) - 1) :
              LET next == IF v < (2 ^ bits) - 1 THEN v + 1 ELSE v
              IN  u_in = UnpackInput(bits, <<v, next, v, next>>, 4, 1, 0, 0)
    /\ u_out = [routine |-> "none", dest |-> <<>>, dest16 |-> <<>>]

\* Inputs whose width is not a multiple of 4: 12-bit frames of width 2, 4 and 6 in
\* rows padded by at least 3 bytes, as a stride aligned to 16 or more pads them,
\* beside the 10-bit frames of width 4 and 8.
UnpackOddInit ==
    /\ u_pc = "input"
    /\ \/ \E base \in [1 .. 4 -> SampleValues(12)], w \in {2, 4, 6}, h \in 1 .. MaxRows,
             pf \in {<<3, 0>>, <<7, 255>>} :
            u_in = UnpackInput(12, Frame(base, w, h), w, h, pf[1], pf[2])
       \/ \E base \in [1 .. 4 -> SampleValues(10)], w \in {4, 8}, h \in 1 .. MaxRows :
            u_in = UnpackInput(10, Frame(base, w, h), w, h, 3, 0)
    /\ u_out = [routine |-> "none", dest |-> <<>>, dest16 |-> <<>>]

\* encodeDNG's switch on bayer_format.bits: case 10
Run_unpack_10bit ==
    /\ u_pc = "input" /\ u_in.bits = 10
    /\ u_out' = [routine |-> "unpack_10bit"] @@ unpack_10bit(u_in.src, u_in.info)
    /\ u_pc' = "done"
    /\ UNCHANGED <<nonUnpackVars, u_in>>

\* case 12, neither force flag
Run_unpack_12bit ==
    /\ u_pc = "input" /\ u_in.bits = 12
    /\ u_out' = [routine |-> "unpack_12bit"] @@ unpack_12bit(u_in.src, u_in.info)
    /\ u_pc' = "done"
    /\ UNCHANGED <<nonUnpackVars, u_in>>

\* case 12, force8bit
Run_unpack_12bit_to_8bit ==
    /\ u_pc = "input" /\ u_in.bits = 12
    /\ u_out' = [routine |-> "unpack_12bit_to_8bit"]
                   @@ unpack_12bit_to_8bit(u_in.src, u_in.info)
    /\ u_pc' = "done"
    /\ UNCHANGED <<nonUnpackVars, u_in>>

\* case 12, force10bit
Run_unpack_12bit_to_10bit ==
    /\ u_pc = "input" /\ u_in.bits = 12
    /\ u_out' = [routine |-> "unpack_12bit_to_10bit"]
                   @@ unpack_12bit_to_10bit(u_in.src, u_in.info)
    /\ u_pc' = "done"
    /\ UNCHANGED <<nonUnpackVars, u_in>>

UnpackNext ==
    \/ Run_unpack_10bit
    \/ Run_unpack_12bit
    \/ Run_unpack_12bit_to_8bit
    \/ Run_unpack_12bit_to_10bit

\* ------------------------------------------------------ encodeDNG / dng_save
TIFF_RGGB == <<0, 1, 1, 2>>

TIFF_GRBG == <<1, 0, 2, 1>>

TIFF_BGGR == <<2, 1, 1, 0>>

TIFF_GBRG == <<1, 2, 0, 1>>

BayerFormat(bits, order, packed, compressed) ==
    [bits |-> bits, order |-> order, packed |-> packed, compressed |-> compressed]

\* bayer_formats of dng_encoder.cpp
bayer_formats ==
    [ SGRBG8 |-> BayerFormat(8, TIFF_GRBG, FALSE, FALSE),
      SRGGB10_CSI2P |-> BayerFormat(10, TIFF_RGGB, TRUE, FALSE),
      SGRBG10_CSI2P |-> BayerFormat(10, TIFF_GRBG, TRUE, FALSE),
      SBGGR10_CSI2P |-> BayerFormat(10, TIFF_BGGR, TRUE, FALSE),
      SGBRG10_CSI2P |-> BayerFormat(10, TIFF_GBRG, TRUE, FALSE),
      SRGGB10 |-> BayerFormat(10, TIFF_RGGB, FALSE, FALSE),
      SGRBG10 |-> BayerFormat(10, TIFF_GRBG, FALSE, FALSE),
      SBGGR10 |-> BayerFormat(10, TIFF_BGGR, FALSE, FALSE),
      SGBRG10 |-> BayerFormat(10, TIFF_GBRG, FALSE, FALSE),
      SRGGB12_CSI2P |-> BayerFormat(12, TIFF_RGGB, TRUE, FALSE),
      SGRBG12_CSI2P |-> BayerFormat(12, TIFF_GRBG, TRUE, FALSE),
      SBGGR12_CSI2P |-> BayerFormat(12, TIFF_BGGR, TRUE, FALSE),
      SGBRG12_CSI2P |-> BayerFormat(12, TIFF_GBRG, TRUE, FALSE),
      SRGGB12 |-> BayerFormat(12, TIFF_RGGB, FALSE, FALSE),
      SGRBG12 |-> BayerFormat(12, TIFF_GRBG, FALSE, FALSE),
      SBGGR12 |-> BayerFormat(12, TIFF_BGGR, FALSE, FALSE),
      SGBRG12 |-> BayerFormat(12, TIFF_GBRG, FALSE, FALSE),
      SRGGB16 |-> BayerFormat(16, TIFF_RGGB, FALSE, FALSE),
      SGRBG16 |-> BayerFormat(16, TIFF_GRBG, FALSE, FALSE),
      SBGGR16 |-> BayerFormat(16, TIFF_BGGR, FALSE, FALSE),
      SGBRG16 |-> BayerFormat(16, TIFF_GBRG, FALSE, FALSE),
      R10_CSI2P |-> BayerFormat(10, TIFF_BGGR, TRUE, FALSE),
      R10 |-> BayerFormat(10, TIFF_BGGR, FALSE, FALSE),
      R12 |-> BayerFormat(12, TIFF_BGGR, FALSE, FALSE),
      RGGB_PISP_COMP1 |-> BayerFormat(16, TIFF_RGGB, FALSE, TRUE),
      GRBG_PISP_COMP1 |-> BayerFormat(16, TIFF_GRBG, FALSE, TRUE),
      GBRG_PISP_COMP1 |-> BayerFormat(16, TIFF_GBRG, FALSE, TRUE),
      BGGR_PISP_COMP1 |-> BayerFormat(16, TIFF_BGGR, FALSE, TRUE) ]

\* The keys of the table each function searches: dng.cpp's has no SGRBG8 entry.
FormatKeys(variant) ==
    IF variant = "encodeDNG" THEN DOMAIN bayer_formats
    ELSE (DOMAIN bayer_formats) \ {"SGRBG8"}

\* it != bayer_formats.end()
SupportedAlways(cfg) == TRUE

Supported(cfg) == cfg.fmt \in FormatKeys(cfg.variant)

\* it->second (read only after the end() check)
FormatOf(cfg) ==
    IF cfg.fmt \in DOMAIN bayer_formats THEN bayer_formats[cfg.fmt]
    ELSE BayerFormat(16, TIFF_RGGB, FALSE, FALSE)

\* bytesPerPixel, in quarter bytes: bits / 8.0, 1 under force8bit, 1.25 under force10bit
BytesPerPixel4(cfg) ==
    IF cfg.force8bit THEN 4
    ELSE IF cfg.force10bit THEN 5
    ELSE FormatOf(cfg).bits \div 2

\* bitsPerPixel after the unpack dispatch: set from the force flags only in the
\* packed branch; dng_save starts it at 16, encodeDNG at bayer_format.bits.
BitsPerPixel(cfg) ==
    LET f == FormatOf(cfg)
    IN  IF (~f.compressed) /\ f.packed
        THEN (IF cfg.force8bit THEN 8 ELSE IF cfg.force10bit THEN 10 ELSE f.bits)
        ELSE (IF cfg.variant = "encodeDNG" THEN f.bits ELSE 16)

\* The routine the unpack dispatch calls ("none": a packed format whose bits is
\* neither 10 nor 12 matches no case of the switch).
UnpackRoutine(cfg) ==
    LET f == FormatOf(cfg)
    IN  IF f.compressed THEN "uncompress"
        ELSE IF f.packed THEN
            (IF f.bits = 10 THEN "unpack_10bit"
             ELSE IF f.bits = 12 THEN
                (IF cfg.force8bit THEN "unpack_12bit_to_8bit"
                 ELSE IF cfg.force10bit THEN "unpack_12bit_to_10bit"
                 ELSE "unpack_12bit")
             ELSE "none")
        ELSE IF cfg.variant = "encodeDNG" /\ f.bits = 8 THEN "copy_8bit"
        ELSE "unpack_16bit"

\* The bit depth at which a routine packs samples into the byte buffer dest
\* (0: the routine has no byte-buffer parameter and writes only 16-bit samples).
PackedDepth(routine) ==
    CASE routine = "unpack_10bit" -> 10
      [] routine = "unpack_12bit" -> 12
      [] routine = "unpack_12bit_to_8bit" -> 8
      [] routine = "unpack_12bit_to_10bit" -> 10
      [] routine = "copy_8bit" -> 8
      [] OTHER -> 0

\* buf_stride_pixels_padded: (info.width + 7) & ~7
PaddedWidth(info) == AlignDown(info.width + 7, 8)

\* buf8bit's size: int(info.width * bytesPerPixel * info.height)
Buf8bitLen(cfg) == (cfg.info.width * cfg.info.height * BytesPerPixel4(cfg)) \div 4

\* buf16Bit's size: buf_stride_pixels_padded * info.height
Buf16BitLen(cfg) == PaddedWidth(cfg.info) * cfg.info.height

\* What a routine's loops touch, all counted from the start of each buffer or row:
\* destEnd bytes stored to dest, dest16End samples stored to the 16-bit buffer,
\* rowPixels pixels decoded per row and rowBytes source bytes read per row.  The
\* packed routines advance dest and dest16Bit without a gap; unpack_16bit and
\* copy_8bit advance them by w per row; uncompress starts row y at y * padded
\* width and stores 8 samples per iteration of  for (x = 0; x < width; x += 8).
UnpackExtent(routine, info) ==
    LET w == info.width
        h == info.height
    IN  IF routine \in PackedRoutines
        THEN LET p == LoopParams(routine, info)
                 n == LoopCount(p.w_align, p.step)
             IN  [destEnd |-> h * n * p.outBytes, dest16End |-> h * n * p.step,
                  rowPixels |-> n * p.step, rowBytes |-> n * p.inBytes]
        ELSE IF routine = "unpack_16bit"
        THEN [destEnd |-> 0, dest16End |-> h * w, rowPixels |-> w, rowBytes |-> 2 * w]
        ELSE IF routine = "copy_8bit"
        THEN [destEnd |-> h * w, dest16End |-> h * w, rowPixels |-> w, rowBytes |-> w]
        ELSE IF routine = "uncompress"
        THEN [destEnd |-> 0,
              dest16End |-> (h - 1) * PaddedWidth(info) + LoopCount(w, 8) * 8,
              rowPixels |-> LoopCount(w, 8) * 8, rowBytes |-> LoopCount(w, 8) * 8]
        ELSE [destEnd |-> 0, dest16End |-> 0, rowPixels |-> 0, rowBytes |-> 0]

\* A store past the end of buf8bit or buf16Bit
Overflows(cfg) ==
    LET e == UnpackExtent(UnpackRoutine(cfg), cfg.info)
    IN  e.destEnd > Buf8bitLen(cfg) \/ e.dest16End > Buf16BitLen(cfg)

\* ---- metadata.  Real-valued quantities are kept exact: black levels as
\* numerators over 65536, gains and the lens position in quarters, the
\* exposure time in microseconds, a reciprocal as <<numerator, denominator>>.
MetaKeys ==
    {"SensorBlackLevels", "ExposureTime", "AnalogueGain", "ColourGains",
     "ColourCorrectionMatrix", "LensPosition"}

\* auto x = metadata.get(control): whether the optional holds a value
Has(cfg, key) == key \in cfg.meta.present

\* the native default alone, the force flags not consulted
BlackNoOverride(cfg) == 4096 * (2 ^ FormatOf(cfg).bits)

\* float black, before the metadata is consulted
Black(cfg) ==
    IF cfg.force8bit THEN (16 + 12) * 65536
    ELSE IF cfg.force10bit THEN (64 + 4) * 65536
    ELSE 4096 * (2 ^ FormatOf(cfg).bits)

\* i ^ 1 for i in 0 .. 3
Xor1(i) == IF i % 2 = 0 THEN i + 1 ELSE i - 1

\* the green slot chosen by whether the partner is itself green
ReorderSlotGreenBySelf(order, i) ==
    LET j == order[i + 1]
    IN  IF j = 0 THEN 0
        ELSE IF j = 2 THEN 3
        ELSE 1 + (IF order[Xor1(i) + 1] # 1 THEN 0 ELSE 1)

\* the green slots exchanged: 1 + !order[i ^ 1]
ReorderSlotSwappedGreens(order, i) ==
    LET j == order[i + 1]
    IN  IF j = 0 THEN 0
        ELSE IF j = 2 THEN 3
        ELSE 1 + (IF order[Xor1(i) + 1] # 0 THEN 0 ELSE 1)

\* j = order[i]; j = j == 0 ? 0 : (j == 2 ? 3 : 1 + !!order[i ^ 1])   (i from 0)
ReorderSlot(order, i) ==
    LET j == order[i + 1]
    IN  IF j = 0 THEN 0
        ELSE IF j = 2 THEN 3
        ELSE 1 + (IF order[Xor1(i) + 1] # 0 THEN 1 ELSE 0)

\* the loop  for (i = 0; i < 4; i++) black_levels[j] = (*bl)[i] * (1 << bits) / 65536.0
\* from iteration i on
RECURSIVE ReorderLoop(_, _, _, _, _)
ReorderLoop(levels, bl, order, bits, i) ==
    IF i >= 4 THEN levels
    ELSE ReorderLoop([levels EXCEPT ![ReorderSlot(order, i) + 1] = bl[i + 1] * (2 ^ bits)],
                     bl, order, bits, i + 1)

\* the value of j in each iteration of the loop (no iteration without the metadata)
ReorderSlots(cfg) ==
    IF Has(cfg, "SensorBlackLevels")
    THEN [i \in 1 .. 4 |-> ReorderSlot(FormatOf(cfg).order, i - 1)]
    ELSE <<>>

\* float black_levels[4] as handed to TIFFTAG_BLACKLEVEL
BlackLevels(cfg) ==
    LET black == Black(cfg)
        f == FormatOf(cfg)
    IN  IF Has(cfg, "SensorBlackLevels")
        THEN ReorderLoop(<<black, black, black, black>>, cfg.meta.SensorBlackLevels,
                         f.order, f.bits, 0)
        ELSE <<black, black, black, black>>

\* float exp_time = 10000, or *exp; in microseconds (the code then divides by 1e6)
ExpTimeMicros(cfg) ==
    IF Has(cfg, "ExposureTime") THEN cfg.meta.ExposureTime ELSE 10000

\* another default ISO
IsoDefault200(cfg) ==
    IF Has(cfg, "AnalogueGain") THEN U16((cfg.meta.AnalogueGain * 100) \div 4) ELSE 200

\* uint16_t iso = 100, or *ag * 100.0 (the gain in quarters)
Iso(cfg) ==
    IF Has(cfg, "AnalogueGain") THEN U16((cfg.meta.AnalogueGain * 100) \div 4) ELSE 100

\* float NEUTRAL[3] = { 1, 1, 1 }, or { 1.0 / cg[0], 1, 1.0 / cg[1] }
Neutral(cfg) ==
    IF Has(cfg, "ColourGains")
    THEN << <<4, cfg.meta.ColourGains[1]>>, <<1, 1>>, <<4, cfg.meta.ColourGains[2]>> >>
    ELSE << <<1, 1>>, <<1, 1>>, <<1, 1>> >>

\* Matrix CCM(...): the built-in matrix, in 1/100000
DefaultCCM ==
    << 190255, -77478, -12777, -31338, 188197, -56858, -6001, -61785, 167786 >>

Ccm(cfg) ==
    IF Has(cfg, "ColourCorrectionMatrix") THEN cfg.meta.ColourCorrectionMatrix
    ELSE DefaultCCM

\* EXIFTAG_SUBJECTDISTANCE: not set (<<>>) without a lens position, else 1.0 / *lp,
\* infinity (<<1, 0>>) when *lp is not positive
SubjectDistance(cfg) ==
    IF Has(cfg, "LensPosition")
    THEN (IF cfg.meta.LensPosition > 0 THEN <<4, cfg.meta.LensPosition>> ELSE <<1, 0>>)
    ELSE <<>>

\* ---- region of interest.  roi_x, roi_y, roi_width, roi_height are taken in
\* quarters (exact as float), so (unsigned)((float)dim * roi) is dim * q / 4
\* rounded down.
RoiGrid == 0 .. 4

RoiScale(dim, q) == (dim * q) \div 4

\* the end left where the request put it
ClampNever(end, limit) == end

\* if (end > limit) end = limit
Clamp(end, limit) == IF end > limit THEN limit ELSE end

\* startX -= startX % 4 for 10 bits per pixel, startX % 2 for 12
RoundStart(startX, bitsPerPixel) ==
    IF bitsPerPixel = 10 THEN startX - (startX % 4)
    ELSE IF bitsPerPixel = 12 THEN startX - (startX % 2)
    ELSE startX

\* The ROI calculations: reqWidth and reqHeight are width and height before the
\* clamp, the other fields the values the main IFD and the row loop use.  With
\* the four inputs in [0, 1] no unsigned subtraction wraps.
Roi(cfg, bitsPerPixel) ==
    LET W == cfg.info.width
        H == cfg.info.height
        startX == RoundStart(RoiScale(W, cfg.roi.x), bitsPerPixel)
        startY == RoiScale(H, cfg.roi.y)
        w0 == RoiScale(W, cfg.roi.width)
        h0 == RoiScale(H, cfg.roi.height)
        width == IF w0 = 0 THEN W - startX ELSE w0
        height == IF h0 = 0 THEN H ELSE h0
        endX == Clamp(startX + width, W)
        endY == Clamp(startY + height, H)
    IN  [ startX |-> startX, startY |-> startY,
          reqWidth |-> width, reqHeight |-> height,
          endX |-> endX, endY |-> endY,
          width |-> IF startX + width > W THEN endX - startX ELSE width,
          height |-> IF startY + height > H THEN endY - startY ELSE height ]

NoRoi == [x |-> 0, y |-> 0, width |-> 0, height |-> 0]

\* unsigned int roiOffset = startX * bytesPerPixel, in quarter bytes
RoiOffset4(st) == st.roi.startX * st.bytesPerPixel4

\* iterations of  for (y = startY; y < endY; y++)
MainRows(st) == IF st.roi.endY > st.roi.startY THEN st.roi.endY - st.roi.startY ELSE 0

\* unsigned int rowStartLocation = info.width * bytesPerPixel * y
RowStartLocation(cfg, st, y) == (cfg.info.width * st.bytesPerPixel4 * y) \div 4

\* the bytes one TIFFWriteScanline of the main IFD takes from its buffer argument:
\* IMAGEWIDTH samples of BITSPERSAMPLE bits, one sample per pixel
ScanlineSize(st) == (st.roi.width * st.BitsPerSample + 7) \div 8

\* &buf8bit[rowStartLocation + roiOffset] and the bytes read from there
MainScan(cfg, st, y) ==
    LET from == RowStartLocation(cfg, st, y) + (RoiOffset4(st) \div 4)
    IN  [y |-> y, from |-> from, to |-> from + ScanlineSize(st)]

\* unsigned int thumbnailSizeMultiplier
ThumbShift(variant) == IF variant = "encodeDNG" THEN 3 ELSE 4

ThumbRows(cfg) == cfg.info.height \div (2 ^ ThumbShift(cfg.variant))

\* uint32_t white = (1 << bayer_format.bits) - 1
White(cfg) == (2 ^ FormatOf(cfg).bits) - 1

\* buf_stride_pixels after the unpack dispatch
BufStride(cfg) ==
    IF FormatOf(cfg).compressed THEN PaddedWidth(cfg.info) ELSE cfg.info.width

\* unsigned int off = (y * buf_stride_pixels + x) << thumbnailSizeMultiplier, for
\* each x of thumbnail row y
ThumbOffs(cfg, st, y) ==
    [x \in 1 .. Shr(cfg.info.width, ThumbShift(cfg.variant)) |->
        Shl(y * st.buf_stride_pixels + (x - 1), ThumbShift(cfg.variant))]

\* TIFFWriteScanline(...) != 1
WriteFailedIgnored(ret) == FALSE

WriteFailed(ret) == ret # 1

EncStart ==
    [ bitsPerPixel |-> 0, bytesPerPixel4 |-> 0, routine |-> "none",
      allocated |-> {},          \* of "buf8bit", "buf16Bit"
      mem_buffer |-> "none",     \* "none" | "allocated" | "freed" | "transferred"
      tif |-> "null",            \* "null" | "open" | "closed"
      sinkWrites |-> 0,          \* writes that reached the sink (memory or file)
      row |-> 0,
      BitsPerSample |-> 0,       \* of the main raw IFD, 0 while unset
      error |-> "none",
      encoded_buffer |-> "nullptr", buffer_len |-> 0,
      pushed |-> FALSE,
      buf8bitLen |-> 0, buf16BitLen |-> 0,     \* the sizes of the two vectors
      extent |-> UnpackExtent("none", [width |-> 0, height |-> 0]),
      reorder |-> <<>>, black_levels |-> <<>>, exp_time |-> 0, iso |-> 0, NEUTRAL |-> <<>>, CCM |-> <<>>,
      roi |-> Roi([info |-> [width |-> 0, height |-> 0], roi |-> NoRoi], 0),
      offset_subifd |-> 0, offset_exififd |-> 0,
      dirOffset |-> [main |-> 0, exif |-> 0],  \* where libtiff put each directory
      dir0 |-> [SubIFD |-> 0, EXIFIFD |-> 0],  \* the two fields of directory 0
      SubjectDistance |-> <<>>,
      thumb |-> [width |-> 0, height |-> 0],   \* IMAGEWIDTH / IMAGELENGTH of directory 0
      scan |-> [y |-> 0, from |-> 0, to |-> 0], \* bytes [from, to) of buf8bit last written as a main row
      buf_stride_pixels |-> 0,
      WhiteLevel |-> 0,          \* of the main raw IFD, 0 while unset
      thumbOffs |-> <<>>,        \* off of each x of the thumbnail row built last
      writesAfterFree |-> 0 ]                  \* tiff_write calls on a freed mem_buffer.data

\* No metadata entry present (the values of absent entries are never read).
NoMeta ==
    [ present |-> {}, SensorBlackLevels |-> <<0, 0, 0, 0>>, ExposureTime |-> 0,
      AnalogueGain |-> 0, ColourGains |-> <<0, 0>>, ColourCorrectionMatrix |-> <<>>,
      LensPosition |-> 0 ]

EncCfg(variant, fmt, f8, f10, w, h, roi, meta) ==
    [ variant |-> variant, fmt |-> fmt, force8bit |-> f8, force10bit |-> f10,
      info |-> [width |-> w, height |-> h], roi |-> roi, meta |-> meta ]

EncInit ==
    /\ e_pc = "start"
    /\ \E variant \in {"encodeDNG", "dng_save"},
          fmt \in (DOMAIN bayer_formats) \cup {"YUV420", "RGB888"},
          f8 \in BOOLEAN, f10 \in BOOLEAN :
         e_cfg = EncCfg(variant, fmt, f8, f10, 16, 16, NoRoi, NoMeta)
    /\ e_st = EncStart
    /\ e_log = <<>>

\* Frames of every width up to MaxWidth, one row high or just high enough for a
\* thumbnail row, in every format and with every setting of the force flags.
SizesInit ==
    /\ e_pc = "start"
    /\ \E variant \in {"encodeDNG", "dng_save"},
          fmt \in (DOMAIN bayer_formats) \cup {"YUV420"},
          f8 \in BOOLEAN, f10 \in BOOLEAN, w \in 1 .. MaxWidth,
          h \in {1, 2 ^ ThumbShift("encodeDNG")} :
         e_cfg = EncCfg(variant, fmt, f8, f10, w, h, NoRoi, NoMeta)
    /\ e_st = EncStart
    /\ e_log = <<>>

\* The values the metadata entries hold when present: black levels R, Gr, Gb, B, the
\* exposure in microseconds, gain 2.5, colour gains 2.0 and 1.5, a colour
\* matrix, the lens position (0: at infinity, or 0.5).
MetaWith(present, lp) ==
    [ present |-> present, SensorBlackLevels |-> <<4096, 4160, 4224, 4288>>,
      ExposureTime |-> 20000, AnalogueGain |-> 10, ColourGains |-> <<8, 6>>,
      ColourCorrectionMatrix |->
          << 150000, -30000, -20000, -25000, 160000, -35000, -5000, -45000, 150000 >>,
      LensPosition |-> lp ]

\* 8 x 8 frames of one format per bit depth and CFA order, with every subset of
\* the metadata entries present.
MetaInit ==
    /\ e_pc = "start"
    /\ \E variant \in {"encodeDNG", "dng_save"},
          fmt \in {"SGRBG8", "SRGGB10_CSI2P", "SGRBG10", "SBGGR12_CSI2P",
                   "SGBRG12_CSI2P", "SGBRG16", "YUV420"},
          f8 \in BOOLEAN, f10 \in BOOLEAN,
          present \in SUBSET MetaKeys, lp \in {0, 2} :
         /\ ("LensPosition" \notin present) => lp = 0
         /\ e_cfg = EncCfg(variant, fmt, f8, f10, 8, 8, NoRoi, MetaWith(present, lp))
    /\ e_st = EncStart
    /\ e_log = <<>>

\* Formats and force flags giving each value of bitsPerPixel and bytesPerPixel,
\* packed and unpacked, and one unknown format.
RoiFormats ==
    { <<"SRGGB10_CSI2P", FALSE, FALSE>>, <<"SRGGB10_CSI2P", TRUE, FALSE>>,
      <<"SRGGB12_CSI2P", FALSE, FALSE>>, <<"SRGGB12_CSI2P", TRUE, FALSE>>,
      <<"SRGGB12_CSI2P", FALSE, TRUE>>, <<"SRGGB12", FALSE, TRUE>>,
      <<"SRGGB16", FALSE, FALSE>>, <<"YUV420", FALSE, FALSE>> }

\* Frames MaxWidth and MaxWidth + 1 wide and 8 high with the region of interest
\* on the grid: every start and width, and start and height 0, 1/2 and 1.
RoiInit ==
    /\ e_pc = "start"
    /\ \E variant \in {"encodeDNG", "dng_save"}, f \in RoiFormats,
          w \in {MaxWidth, MaxWidth + 1},
          x \in RoiGrid, rw \in RoiGrid, y \in {0, 2, 4}, rh \in {0, 2, 4} :
         e_cfg = EncCfg(variant, f[1], f[2], f[3], w, 8,
                        [x |-> x, y |-> y, width |-> rw, height |-> rh], NoMeta)
    /\ e_st = EncStart
    /\ e_log = <<>>

EncOff == e_pc = "off" /\ e_cfg = <<>> /\ e_st = <<>> /\ e_log = <<>>

\* The exception leaves the function: its message is recorded.
Throw(st, msg) == [st EXCEPT !.error = msg]

\* TIFFClose of a handle opened for writing flushes the pending strip data and
\* the dirty directory through the write callback before it releases the handle:
\* for the memory sink that is tiff_write on mem_buffer.
CloseFlushes(st) == st.tif = "open" /\ st.mem_buffer = "allocated"

\* The catch block of the try around the TIFF calls: encodeDNG frees
\* mem_buffer.data, both close tif if it is open, and the exception is rethrown.
Catch(st, msg) ==
    [st EXCEPT !.error = msg,
               !.mem_buffer = IF @ = "allocated" THEN "freed" ELSE @,
               !.tif = IF @ = "open" THEN "closed" ELSE @,
               !.writesAfterFree = IF CloseFlushes(st) THEN @ + 1 ELSE @]

CatchLog(st) ==
    (IF st.mem_buffer = "allocated" THEN <<"free">> ELSE <<>>)
        \o (IF st.tif = "open" THEN <<"TIFFClose">> ELSE <<>>)
        \o (IF CloseFlushes(st) THEN <<"tiff_write">> ELSE <<>>)

\* bayer_formats.find(...) == end(): throw before anything is allocated
E_Unsupported ==
    /\ e_pc = "start"
    /\ ~Supported(e_cfg)
    /\ e_st' = Throw(e_st, "unsupported Bayer format")
    /\ e_pc' = "thrown"
    /\ UNCHANGED <<nonEncVars, e_cfg, e_log>>

\* the std::vector constructors throw std::bad_alloc
E_AllocFail ==
    /\ e_pc = "start"
    /\ Supported(e_cfg)
    /\ e_st' = Throw(e_st, "bad_alloc")
    /\ e_pc' = "thrown"
    /\ UNCHANGED <<nonEncVars, e_cfg, e_log>>

\* buf8bit and buf16Bit allocated, the raw data unpacked by the dispatched routine,
\* the metadata read with its defaults
E_Unpack ==
    /\ e_pc = "start"
    /\ Supported(e_cfg)
    /\ e_st' = [e_st EXCEPT !.allocated = {"buf8bit", "buf16Bit"},
                            !.bytesPerPixel4 = BytesPerPixel4(e_cfg),
                            !.bitsPerPixel = BitsPerPixel(e_cfg),
                            !.routine = UnpackRoutine(e_cfg),
                            !.buf_stride_pixels = BufStride(e_cfg),
                            !.buf8bitLen = Buf8bitLen(e_cfg),
                            !.buf16BitLen = Buf16BitLen(e_cfg),
                            !.extent = UnpackExtent(UnpackRoutine(e_cfg), e_cfg.info),
                            !.reorder = ReorderSlots(e_cfg),
                            !.black_levels = BlackLevels(e_cfg),
                            !.exp_time = ExpTimeMicros(e_cfg),
                            !.iso = Iso(e_cfg),
                            !.NEUTRAL = Neutral(e_cfg),
                            !.CCM = Ccm(e_cfg)]
    /\ e_pc' = "unpacked"
    /\ UNCHANGED <<nonEncVars, e_cfg, e_log>>

\* The routine stored past the end of a vector: the heap is corrupted, and the
\* process may die there instead of going on.
E_UnpackCrash ==
    /\ e_pc = "start"
    /\ Supported(e_cfg)
    /\ Overflows(e_cfg)
    /\ e_st' = [e_st EXCEPT !.allocated = {"buf8bit", "buf16Bit"},
                            !.bytesPerPixel4 = BytesPerPixel4(e_cfg),
                            !.bitsPerPixel = BitsPerPixel(e_cfg),
                            !.routine = UnpackRoutine(e_cfg),
                            !.buf_stride_pixels = BufStride(e_cfg),
                            !.buf8bitLen = Buf8bitLen(e_cfg),
                            !.buf16BitLen = Buf16BitLen(e_cfg),
                            !.extent = UnpackExtent(UnpackRoutine(e_cfg), e_cfg.info)]
    /\ e_pc' = "crashed"
    /\ UNCHANGED <<nonEncVars, e_cfg, e_log>>

\* encodeDNG: malloc of mem_buffer.data fails (thrown outside the try block)
E_MallocFail ==
    /\ e_pc = "unpacked"
    /\ e_cfg.variant = "encodeDNG"
    /\ e_st' = Throw([e_st EXCEPT !.allocated = {}], "failed to allocate DNG memory buffer")
    /\ e_pc' = "thrown"
    /\ UNCHANGED <<nonEncVars, e_cfg, e_log>>

\* TIFFClientOpen / TIFFOpen returns null: throw inside the try block
E_OpenFail ==
    /\ e_pc = "unpacked"
    /\ LET st == [e_st EXCEPT !.mem_buffer =
                      IF e_cfg.variant = "encodeDNG" THEN "allocated" ELSE @]
       IN  /\ e_st' = [Catch(st, "could not open TIFF") EXCEPT !.allocated = {}]
           /\ e_log' = e_log \o <<"open_failed">> \o CatchLog(st)
    /\ e_pc' = "thrown"
    /\ UNCHANGED <<nonEncVars, e_cfg>>

\* the sink is opened for writing: libtiff writes the TIFF header
E_Open ==
    /\ e_pc = "unpacked"
    /\ e_st' = [e_st EXCEPT !.mem_buffer =
                                IF e_cfg.variant = "encodeDNG" THEN "allocated" ELSE @,
                            !.tif = "open",
                            !.sinkWrites = @ + 1]
    /\ e_log' = Append(e_log, "open")
    /\ e_pc' = "thumb_fields"
    /\ UNCHANGED <<nonEncVars, e_cfg>>

\* the TIFFSetField calls of the thumbnail IFD (directory 0): SUBIFD and EXIFIFD
\* are set from offset_subifd and offset_exififd, both still 0
E_ThumbFields ==
    /\ e_pc = "thumb_fields"
    /\ e_st' = [e_st EXCEPT !.row = 0,
                            !.thumb = [width |-> Shr(e_cfg.info.width, ThumbShift(e_cfg.variant)),
                                       height |-> ThumbRows(e_cfg)],
                            !.dir0 = [SubIFD |-> e_st.offset_subifd,
                                      EXIFIFD |-> e_st.offset_exififd]]
    /\ e_log' = Append(e_log, "thumb_fields")
    /\ e_pc' = "thumb_rows"
    /\ UNCHANGED <<nonEncVars, e_cfg>>

\* One TIFFWriteScanline of a scanline loop, returning ret; on failure the throw
\* and the catch block, otherwise the next row.
Scanline(ret, what, msg, scan, offs) ==
    /\ e_log' = e_log
                  \o << IF ret = 1 THEN what ELSE "failed_scanline" >>
                  \o (IF WriteFailed(ret) THEN CatchLog(e_st) ELSE <<>>)
    /\ IF WriteFailed(ret)
       THEN /\ e_st' = [Catch(e_st, msg) EXCEPT !.allocated = {}]
            /\ e_pc' = "thrown"
       ELSE /\ e_st' = [e_st EXCEPT !.row = @ + 1, !.scan = scan, !.thumbOffs = offs,
                                    !.sinkWrites = @ + (IF ret = 1 THEN 1 ELSE 0)]
            /\ e_pc' = e_pc

\* the thumbnail loop: one row built and written
E_ThumbScanline ==
    /\ e_pc = "thumb_rows"
    /\ e_st.row < ThumbRows(e_cfg)
    /\ \E ret \in {1, -1} :
         Scanline(ret, "thumb_scanline", "error writing DNG thumbnail data", e_st.scan,
                  ThumbOffs(e_cfg, e_st, e_st.row))
    /\ UNCHANGED <<nonEncVars, e_cfg>>

\* TIFFWriteDirectory after the thumbnail loop
E_ThumbWriteDirectory ==
    /\ e_pc = "thumb_rows"
    /\ e_st.row >= ThumbRows(e_cfg)
    /\ e_st' = [e_st EXCEPT !.sinkWrites = @ + 1]
    /\ e_log' = Append(e_log, "TIFFWriteDirectory")
    /\ e_pc' = "main_fields"
    /\ UNCHANGED <<nonEncVars, e_cfg>>

\* the ROI calculations and the TIFFSetField calls of the main raw IFD:
\* BITSPERSAMPLE is bitsPerPixel
E_MainFields ==
    /\ e_pc = "main_fields"
    /\ e_st' = [e_st EXCEPT !.row = 0, !.BitsPerSample = e_st.bitsPerPixel,
                            !.WhiteLevel = White(e_cfg),
                            !.roi = Roi(e_cfg, e_st.bitsPerPixel)]
    /\ e_log' = Append(e_log, "main_fields")
    /\ e_pc' = "main_rows"
    /\ UNCHANGED <<nonEncVars, e_cfg>>

\* the main image loop: one row of buf8bit written (row counts rowNum)
E_MainScanline ==
    /\ e_pc = "main_rows"
    /\ e_st.row < MainRows(e_st)
    /\ \E ret \in {1, -1} :
         Scanline(ret, "main_scanline", "error writing DNG image data",
                  MainScan(e_cfg, e_st, e_st.roi.startY + e_st.row), e_st.thumbOffs)
    /\ UNCHANGED <<nonEncVars, e_cfg>>

\* The calls after the main image loop, none of them checked.
SubIfdCalls == << "TIFFCheckpointDirectory", "offset_subifd", "TIFFWriteDirectory" >>

ExifCalls ==
    << "TIFFCreateEXIFDirectory", "exif_fields", "TIFFCheckpointDirectory",
       "offset_exififd", "TIFFWriteDirectory" >>

PatchCalls == << "TIFFSetDirectory0", "patch_offsets", "TIFFWriteDirectory" >>

\* the close without the unlink of directory 2
CloseCallsWithoutUnlink == << "TIFFClose" >>

CloseCalls == << "TIFFUnlinkDirectory2", "TIFFClose" >>

FinishCalls == SubIfdCalls \o ExifCalls \o PatchCalls \o CloseCalls

\* TIFFCheckpointDirectory writes the current directory at the end of the sink;
\* TIFFCurrentDirOffset then returns where it is (never 0, the header comes first).
CheckpointOffset(st) == st.sinkWrites + 1

\* after the row loop: checkpoint, offset_subifd = TIFFCurrentDirOffset, write directory
E_SubIfd ==
    /\ e_pc = "main_rows"
    /\ e_st.row >= MainRows(e_st)
    /\ e_st' = [e_st EXCEPT !.dirOffset.main = CheckpointOffset(e_st),
                            !.offset_subifd = CheckpointOffset(e_st),
                            !.sinkWrites = @ + 1]
    /\ e_log' = e_log \o SubIfdCalls
    /\ e_pc' = "exif"
    /\ UNCHANGED <<nonEncVars, e_cfg>>

\* the EXIF directory: its fields (the subject distance only with a lens
\* position), checkpoint, offset_exififd = TIFFCurrentDirOffset, write directory
E_Exif ==
    /\ e_pc = "exif"
    /\ e_st' = [e_st EXCEPT !.SubjectDistance = SubjectDistance(e_cfg),
                            !.dirOffset.exif = CheckpointOffset(e_st),
                            !.offset_exififd = CheckpointOffset(e_st),
                            !.sinkWrites = @ + 1]
    /\ e_log' = e_log \o ExifCalls
    /\ e_pc' = "patch"
    /\ UNCHANGED <<nonEncVars, e_cfg>>

\* directory 0 left as the thumbnail step wrote it
PatchedDir0KeepsPlaceholders(st) == st.dir0

\* The SUBIFD and EXIFIFD fields set on directory 0 from the two locals
PatchedDir0(st) == [SubIFD |-> st.offset_subifd, EXIFIFD |-> st.offset_exififd]

\* TIFFSetDirectory(tif, 0), the two fields set again, write directory
E_PatchOffsets ==
    /\ e_pc = "patch"
    /\ e_st' = [e_st EXCEPT !.dir0 = PatchedDir0(e_st), !.sinkWrites = @ + 1]
    /\ e_log' = e_log \o PatchCalls
    /\ e_pc' = "finish"
    /\ UNCHANGED <<nonEncVars, e_cfg>>

\* TIFFUnlinkDirectory(tif, 2) and TIFFClose; encodeDNG then hands mem_buffer
\* over: encoded_buffer and buffer_len are set.
E_Finish ==
    /\ e_pc = "finish"
    /\ e_log' = e_log \o CloseCalls
    /\ e_st' = IF e_cfg.variant = "encodeDNG"
               THEN [e_st EXCEPT !.tif = "closed", !.sinkWrites = @ + 1,
                                 !.allocated = {},
                                 !.encoded_buffer = "mem_buffer.data",
                                 !.buffer_len = e_st.sinkWrites + 1,
                                 !.mem_buffer = "transferred"]
               ELSE [e_st EXCEPT !.tif = "closed", !.sinkWrites = @ + 1,
                                 !.allocated = {}]
    /\ e_pc' = "returned"
    /\ UNCHANGED <<nonEncVars, e_cfg>>

\* encodeThread after encodeDNG returned: the OutputItem is pushed
E_WorkerPush ==
    /\ e_pc = "returned"
    /\ e_cfg.variant = "encodeDNG"
    /\ e_st' = [e_st EXCEPT !.pushed = TRUE]
    /\ e_pc' = "pushed"
    /\ UNCHANGED <<nonEncVars, e_cfg, e_log>>

\* encodeThread's catch: log the error and continue with the next frame
E_WorkerSkip ==
    /\ e_pc = "thrown"
    /\ e_cfg.variant = "encodeDNG"
    /\ e_pc' = "skipped"
    /\ UNCHANGED <<nonEncVars, e_cfg, e_st, e_log>>

\* tiff_write has used the freed mem_buffer.data (memcpy into it, or realloc of
\* it): the heap is corrupted, and the process may die instead of rethrowing.
E_CloseCrash ==
    /\ e_pc = "thrown"
    /\ e_st.writesAfterFree > 0
    /\ e_pc' = "crashed"
    /\ UNCHANGED <<nonEncVars, e_cfg, e_st, e_log>>

EncNext ==
    \/ E_Unsupported
    \/ E_AllocFail
    \/ E_Unpack
    \/ E_UnpackCrash
    \/ E_MallocFail
    \/ E_OpenFail
    \/ E_Open
    \/ E_ThumbFields
    \/ E_ThumbScanline
    \/ E_ThumbWriteDirectory
    \/ E_MainFields
    \/ E_MainScanline
    \/ E_SubIfd
    \/ E_Exif
    \/ E_PatchOffsets
    \/ E_Finish
    \/ E_WorkerPush
    \/ E_WorkerSkip
    \/ E_CloseCrash

\* ------------------------------------------------------ block decompressor
Min(a, b) == IF a < b THEN a ELSE b

Max(a, b) == IF a > b THEN a ELSE b

COMPRESS_OFFSET == 2048

\* the offset added with no std::min before the conversion to uint16_t
postprocessNoClamp(a) == U16(a + COMPRESS_OFFSET)

\* with COMPRESS_MODE 1 the companding branch (COMPRESS_MODE & 2) is not taken
postprocess(a) == U16(Min(65535, a + COMPRESS_OFFSET))

\* the four cases with no std::min in the default case
DequantizeNoClampCase(q, qmode) ==
    CASE qmode = 0 -> IF q < 320 THEN 16 * q ELSE 32 * (q - 160)
      [] qmode = 1 -> 64 * q
      [] qmode = 2 -> 128 * q
      [] OTHER -> IF q < 94 THEN 256 * q ELSE 512 * (q - 47)

\* the int expression of each case, before the conversion to the uint16_t result
DequantizeCase(q, qmode) ==
    CASE qmode = 0 -> IF q < 320 THEN 16 * q ELSE 32 * (q - 160)
      [] qmode = 1 -> 64 * q
      [] qmode = 2 -> 128 * q
      [] OTHER -> IF q < 94 THEN 256 * q ELSE Min(65535, 512 * (q - 47))

dequantize(q, qmode) == U16(DequantizeCase(q, qmode))

\* A uint32_t word is the pair <<low 16 bits, high 16 bits>>.
\* (w >> from) & (2^n - 1), 2 <= from
WordBits(w, from, n) ==
    IF from < 16 THEN LowBits(Shr(w[1], from) + Shl(w[2], 16 - from), n)
    ELSE LowBits(Shr(w[2], from - 16), n)

\* p1, p2:  std::max(0, q - 64), and std::min(384, .) for qmode 2
SubBlockP(q, qmode) ==
    IF qmode = 2 THEN Min(384, Max(0, q - 64)) ELSE Max(0, q - 64)

\* q[0..3] of subBlockFunction
SubBlockQ(w) ==
    LET qmode == LowBits(w[1], 2) IN
    IF qmode < 3
    THEN LET field0 == WordBits(w, 2, 9)
             field1 == WordBits(w, 11, 7)
             field2 == WordBits(w, 18, 7)
             field3 == WordBits(w, 25, 7)
             q1 == IF qmode = 2 /\ field0 >= 384 THEN field0
                   ELSE IF field1 >= 64 THEN field0 ELSE field0 + 64 - field1
             q2 == IF qmode = 2 /\ field0 >= 384 THEN field1 + 384
                   ELSE IF field1 >= 64 THEN field0 + field1 - 64 ELSE field0
         IN  << SubBlockP(q1, qmode) + field2, q1, q2, SubBlockP(q2, qmode) + field3 >>
    ELSE LET pack0 == WordBits(w, 2, 15)
             pack1 == WordBits(w, 17, 15)
         IN  << LowBits(pack0, 4) + 16 * (Shr(pack0, 8) \div 11), Shr(pack0, 4) % 176,
                LowBits(pack1, 4) + 16 * (Shr(pack1, 8) \div 11), Shr(pack1, 4) % 176 >>

\* d[0], d[2], d[4], d[6]
subBlockFunction(w) ==
    [i \in 1 .. 4 |-> dequantize(SubBlockQ(w)[i], LowBits(w[1], 2))]

\* *sp for sp = src + i; a read past the end of the buffer yields what lies there
SrcByte(in, i) == IF i < Len(in.src) THEN in.src[i + 1] ELSE in.beyond

\* w0 (k = 0) or w1 (k = 1) of the group that starts at source byte at
LoadWord(in, at, k) ==
    << SrcByte(in, at + 4 * k) + Shl(SrcByte(in, at + 4 * k + 1), 8),
       SrcByte(in, at + 4 * k + 2) + Shl(SrcByte(in, at + 4 * k + 3), 8) >>

\* buf_stride_pixels
BufStridePixels(info) == AlignDown(info.width + 7, 8)

\* uncompress: the destination samples and, per row, the source bytes [from, to) read
uncompress(in) ==
    LET bsp == BufStridePixels(in.info)
        groups == LoopCount(in.info.width, 8)
    IN  [ dest |-> [i \in 1 .. in.info.height * bsp |->
                       LET y == (i - 1) \div bsp
                           x == (i - 1) % bsp
                           at == y * in.info.stride + 8 * (x \div 8)
                           j == x % 8
                       IN  postprocess(subBlockFunction(LoadWord(in, at, j % 2))[(j \div 2) + 1])],
          reads |-> [y \in 0 .. in.info.height - 1 |->
                       [from |-> y * in.info.stride,
                        to |-> y * in.info.stride + 8 * groups]] ]

\* the word with the given mode and fields, modes 0..2
WordOfFields(qmode, f0, f1, f2, f3) ==
    LET low == qmode + 4 * f0 + 2048 * f1
    IN  << low % 65536, (low \div 65536) + 4 * f2 + 512 * f3 >>

\* the word with mode 3 and the given packs
WordOfPacks(pack0, pack1) ==
    LET low == 3 + 4 * pack0
    IN  << low % 65536, (low \div 65536) + 2 * pack1 >>

WordBytes(w) == << w[1] % 256, w[1] \div 256, w[2] % 256, w[2] \div 256 >>

Field0Values == {0, 1, 63, 64, 65, 255, 319, 320, 383, 384, 385, 447, 448, 510, 511}

Field1Values == {0, 1, 63, 64, 65, 126, 127}

Field23Values == {0, 1, 64, 127}

SampleWords ==
    {WordOfFields(qm, f0, f1, f2, f3) :
        qm \in 0 .. 2, f0 \in Field0Values, f1 \in Field1Values,
        f2 \in Field23Values, f3 \in Field23Values}
    \cup {WordOfPacks(16 * hi + lo, p1) :
            hi \in 0 .. 2047, lo \in {0, 9, 15}, p1 \in {0, 21845, 32767}}
    \cup {WordOfPacks(p0, 16 * hi + 15) : p0 \in {0, 32767}, hi \in 0 .. 2047}

\* one 8-pixel block made of the words w0 and w1
BlockInput(w0, w1) ==
    [kind |-> "uncompress", info |-> [width |-> 8, height |-> 1, stride |-> 8],
     src |-> WordBytes(w0) \o WordBytes(w1), beyond |-> 0]

\* a frame of the given size whose bytes follow a fixed pattern
SizedInput(w, h, stride, seed, beyond) ==
    [kind |-> "uncompress", info |-> [width |-> w, height |-> h, stride |-> stride],
     src |-> [i \in 1 .. h * stride |-> (seed + 37 * i) % 256], beyond |-> beyond]

DecompInit ==
    /\ d_pc = "input"
    /\ d_out = <<>>
    /\ \/ \E q \in 0 .. 65535, qmode \in 0 .. 3 :
            d_in = [kind |-> "dequantize", q |-> q, qmode |-> qmode]
       \/ \E w0 \in SampleWords : \E w1 \in {w0, <<65535, 65535>>} :
            d_in = BlockInput(w0, w1)
       \/ \E w \in 1 .. MaxWidth, h \in 1 .. MaxRows, pad \in {0, 1, 7, 8}, seed \in {3, 130},
             beyond \in {0, 255} :
            d_in = SizedInput(w, h, w + pad, seed, beyond)

DecompOff == d_pc = "off" /\ d_in = <<>> /\ d_out = <<>>

Run_dequantize ==
    /\ d_pc = "input"
    /\ d_in.kind = "dequantize"
    /\ d_out' = [value |-> dequantize(d_in.q, d_in.qmode)]
    /\ d_pc' = "done"
    /\ UNCHANGED <<nonDecompVars, d_in>>

Run_uncompress ==
    /\ d_pc = "input"
    /\ d_in.kind = "uncompress"
    /\ d_out' = uncompress(d_in)
    /\ d_pc' = "done"
    /\ UNCHANGED <<nonDecompVars, d_in>>

DecompNext ==
    \/ Run_dequantize
    \/ Run_uncompress

\* ------------------------------------------------------------------ Matrix
\* A Matrix is the tuple of m[0..8]; At(a, i) is a.m[i].
At(a, i) == a[i + 1]

Matrix_T(a) ==
    << At(a, 0), At(a, 3), At(a, 6), At(a, 1), At(a, 4), At(a, 7), At(a, 2), At(a, 5), At(a, 8) >>

\* the nine minors without the alternating signs
Matrix_CUnsigned(a) ==
    << At(a, 4) * At(a, 8) - At(a, 5) * At(a, 7), At(a, 3) * At(a, 8) - At(a, 5) * At(a, 6),
       At(a, 3) * At(a, 7) - At(a, 4) * At(a, 6),
       At(a, 1) * At(a, 8) - At(a, 2) * At(a, 7), At(a, 0) * At(a, 8) - At(a, 2) * At(a, 6),
       At(a, 0) * At(a, 7) - At(a, 1) * At(a, 6),
       At(a, 1) * At(a, 5) - At(a, 2) * At(a, 4), At(a, 0) * At(a, 5) - At(a, 2) * At(a, 3),
       At(a, 0) * At(a, 4) - At(a, 1) * At(a, 3) >>

Matrix_C(a) ==
    << At(a, 4) * At(a, 8) - At(a, 5) * At(a, 7), -(At(a, 3) * At(a, 8) - At(a, 5) * At(a, 6)),
       At(a, 3) * At(a, 7) - At(a, 4) * At(a, 6),
       -(At(a, 1) * At(a, 8) - At(a, 2) * At(a, 7)), At(a, 0) * At(a, 8) - At(a, 2) * At(a, 6),
       -(At(a, 0) * At(a, 7) - At(a, 1) * At(a, 6)),
       At(a, 1) * At(a, 5) - At(a, 2) * At(a, 4), -(At(a, 0) * At(a, 5) - At(a, 2) * At(a, 3)),
       At(a, 0) * At(a, 4) - At(a, 1) * At(a, 3) >>

Matrix_Adj(a) == Matrix_T(Matrix_C(a))

Matrix_Det(a) ==
    At(a, 0) * (At(a, 4) * At(a, 8) - At(a, 5) * At(a, 7))
    - At(a, 1) * (At(a, 3) * At(a, 8) - At(a, 5) * At(a, 6))
    + At(a, 2) * (At(a, 3) * At(a, 7) - At(a, 4) * At(a, 6))

\* operator*(Matrix const &other)
Matrix_Mul(a, other) ==
    [k \in 1 .. 9 |->
        LET i == (k - 1) \div 3
            j == (k - 1) % 3
        IN  At(a, i * 3) * At(other, j) + At(a, i * 3 + 1) * At(other, 3 + j)
            + At(a, i * 3 + 2) * At(other, 6 + j)]

\* operator*(float const &f)
Matrix_Scale(a, f) == [k \in 1 .. 9 |-> a[k] * f]

\* 1.0 / Det() for a determinant of 1 or -1, where the quotient is exact
UnitReciprocal(det) == det

\* Inv(), for a determinant of 1 or -1
Matrix_Inv(a) == Matrix_Scale(Matrix_Adj(a), UnitReciprocal(Matrix_Det(a)))

Identity == << 1, 0, 0, 0, 1, 0, 0, 0, 1 >>

MatrixEntries == {-1, 0, 1}

\* unit upper-triangular matrices with larger coefficients, and their transposes
ShearMatrices ==
    LET upper == {<< 1, a, b, 0, 1, c, 0, 0, 1 >> : a \in {-3, 2, 5}, b \in {-3, 2, 5}, c \in {-3, 2, 5}}
    IN  upper \cup {Matrix_T(u) : u \in upper}

MatrixInit ==
    /\ m_pc = "input"
    /\ m_out = <<>>
    /\ \/ m_in \in [1 .. 9 -> MatrixEntries]
       \/ m_in \in ShearMatrices

MatrixOff == m_pc = "off" /\ m_in = <<>> /\ m_out = <<>>

\* CAM_XYZ = (...).Inv() and the products the identities are about
Run_Matrix ==
    /\ m_pc = "input"
    /\ m_out' = [ T |-> Matrix_T(m_in), C |-> Matrix_C(m_in), Adj |-> Matrix_Adj(m_in),
                  Det |-> Matrix_Det(m_in),
                  MAdj |-> Matrix_Mul(m_in, Matrix_Adj(m_in)),
                  MInv |-> IF Matrix_Det(m_in) \in {1, -1}
                           THEN Matrix_Mul(m_in, Matrix_Inv(m_in)) ELSE <<>> ]
    /\ m_pc' = "done"
    /\ UNCHANGED <<nonMatrixVars, m_in>>

MatrixNext == Run_Matrix

\* ------------------------------------------------------------- NullEncoder
NullInit ==
    /\ n_queue = <<>>
    /\ n_abort = FALSE
    /\ n_mutex = "free"
    /\ n_pc = "lock"
    /\ n_item = 0
    /\ n_delivered = <<>>
    /\ n_submitted = 0
    /\ n_dtor = "alive"

NullOff ==
    /\ n_queue = <<>>
    /\ n_abort = FALSE
    /\ n_mutex = "off"
    /\ n_pc = "off"
    /\ n_item = 0
    /\ n_delivered = <<>>
    /\ n_submitted = 0
    /\ n_dtor = "off"

\* NullEncoder::EncodeBuffer, called by the owner while the object is alive:
\* std::lock_guard<std::mutex> lock(output_mutex_)
NullEncodeLock ==
    /\ n_dtor = "alive"
    /\ n_submitted < MaxFrames
    /\ n_mutex = "free"
    /\ n_mutex' = "caller"
    /\ UNCHANGED <<nonNullVars, n_queue, n_abort, n_pc, n_item, n_delivered, n_submitted,
                   n_dtor>>

\* EncodeBuffer: output_queue_.push(item); notify_one(); the guard is released
NullEncodeBuffer ==
    /\ n_mutex = "caller"
    /\ n_submitted' = n_submitted + 1
    /\ n_queue' = Append(n_queue, n_submitted + 1)
    /\ n_mutex' = "free"
    /\ UNCHANGED <<nonNullVars, n_abort, n_pc, n_item, n_delivered, n_dtor>>

\* outputThread: std::unique_lock<std::mutex> lock(output_mutex_)
NullLock ==
    /\ n_pc = "lock"
    /\ n_mutex = "free"
    /\ n_mutex' = "thread"
    /\ n_pc' = "check"
    /\ UNCHANGED <<nonNullVars, n_queue, n_abort, n_item, n_delivered, n_submitted, n_dtor>>

\* outputThread: if (!output_queue_.empty()) { item = front(); pop(); break; }
\* and the lock goes out of scope
NullTake ==
    /\ n_pc = "check"
    /\ n_queue # <<>>
    /\ n_item' = Head(n_queue)
    /\ n_queue' = Tail(n_queue)
    /\ n_mutex' = "free"
    /\ n_pc' = "got_item"
    /\ UNCHANGED <<nonNullVars, n_abort, n_delivered, n_submitted, n_dtor>>

\* outputThread: else output_cond_var_.wait_for(lock, 200ms), which releases the mutex
NullWait ==
    /\ n_pc = "check"
    /\ n_queue = <<>>
    /\ n_mutex' = "free"
    /\ n_pc' = "waited"
    /\ UNCHANGED <<nonNullVars, n_queue, n_abort, n_item, n_delivered, n_submitted, n_dtor>>

\* outputThread: wait_for has returned (notified or timed out) with the mutex
\* held again;  if (abort_) return;  otherwise the inner loop goes round
NullWake ==
    /\ n_pc = "waited"
    /\ n_mutex = "free"
    /\ n_pc' = IF n_abort THEN "exited" ELSE "check"
    /\ n_mutex' = IF n_abort THEN "free" ELSE "thread"
    /\ UNCHANGED <<nonNullVars, n_queue, n_abort, n_item, n_delivered, n_submitted, n_dtor>>

\* outputThread: input_done_callback_(nullptr), outside the mutex
NullInputDone ==
    /\ n_pc = "got_item"
    /\ n_pc' = "input_done"
    /\ UNCHANGED <<nonNullVars, n_queue, n_abort, n_mutex, n_item, n_delivered, n_submitted,
                   n_dtor>>

\* outputThread: output_ready_callback_(item.mem, item.length, item.timestamp_us, true)
NullDeliver ==
    /\ n_pc = "input_done"
    /\ n_delivered' = Append(n_delivered, n_item)
    /\ n_item' = 0
    /\ n_pc' = "lock"
    /\ UNCHANGED <<nonNullVars, n_queue, n_abort, n_mutex, n_submitted, n_dtor>>

\* ~NullEncoder, entered by the owner outside EncodeBuffer: abort_ = true
NullDtorAbort ==
    /\ n_dtor = "alive"
    /\ n_mutex # "caller"
    /\ n_abort' = TRUE
    /\ n_dtor' = "join"
    /\ UNCHANGED <<nonNullVars, n_queue, n_mutex, n_pc, n_item, n_delivered, n_submitted>>

\* ~NullEncoder: output_thread_.join()
NullDtorJoin ==
    /\ n_dtor = "join"
    /\ n_pc = "exited"
    /\ n_dtor' = "closed"
    /\ UNCHANGED <<nonNullVars, n_queue, n_abort, n_mutex, n_pc, n_item, n_delivered,
                   n_submitted>>

NullNext ==
    \/ NullEncodeLock
    \/ NullEncodeBuffer
    \/ NullLock
    \/ NullTake
    \/ NullWait
    \/ NullWake
    \/ NullInputDone
    \/ NullDeliver
    \/ NullDtorAbort
    \/ NullDtorJoin

\* ------------------------------------------------ the single-record parts
Off == [pc |-> "off"]

LoopOff == loop = Off

TbufOff == tbuf = Off

GreyOff == grey = Off

GpioOff == gpio = Off

ExifOff == exif = Off

FoutOff == fout = Off

AuxOff == LoopOff /\ TbufOff /\ GreyOff /\ GpioOff /\ ExifOff /\ FoutOff

\* ------------------------------------------------ FileOutput
\* Directories are named by their number (the %d of output_directory).
\* fp_ is <<>> (nullptr) or <<d>>, d the directory its file was opened in; written
\* counts, per directory, the buffers this FileOutput wrote into its files.
MaxBuffers == 4

MaxDirectorySizes == {1, 2}

Directories == 0 .. (MaxBuffers + 2)

\* initializeCurrentOperatingDirectory found the highest-numbered directory
\* maxNum holding dirSize < max_directory_size files.
FoutInit ==
    \E max \in MaxDirectorySizes, maxNum \in 0 .. 1 :
        \E dirSize \in 0 .. (max - 1) :
            fout = [pc |-> "ready", max_directory_size |-> max,
                    current_directory_ |-> maxNum, current_directory_size_ |-> dirSize,
                    directory_count_ |-> maxNum, fp_ |-> <<>>, count_ |-> 0,
                    written |-> [d \in Directories |-> 0], calls |-> 0]

\* fs::create_directory returns true, returns false (the directory exists)
\* or throws filesystem_error, which is caught
makeNewCurrentDir(f, outcome) ==
    IF outcome = "created"
    THEN [f EXCEPT !.directory_count_ = @ + 1, !.current_directory_size_ = 0,
                   !.current_directory_ = f.directory_count_ + 1]
    ELSE [f EXCEPT !.directory_count_ = @ + 1]

\* if (current_directory_size_ > options_->max_directory_size)
DirectoryFull(f) == f.current_directory_size_ > f.max_directory_size

\* closeFile(); openFile(timestamp_us): the new file is in current_directory_
Reopen(f) == [f EXCEPT !.fp_ = <<f.current_directory_>>, !.count_ = @ + 1]

F_outputBuffer ==
    /\ fout.pc = "ready" /\ fout.calls < MaxBuffers
    /\ \E outcome \in {"created", "exists", "error"}, newFile \in BOOLEAN, empty \in BOOLEAN :
          LET placed == IF DirectoryFull(fout) THEN makeNewCurrentDir(fout, outcome)
                        ELSE fout
              opened == IF placed.fp_ = <<>> \/ newFile THEN Reopen(placed) ELSE placed
              stored == IF empty THEN opened
                        ELSE [opened EXCEPT !.written[opened.fp_[1]] = @ + 1]
          IN  fout' = [stored EXCEPT !.current_directory_size_ = @ + 1, !.calls = @ + 1]
    /\ UNCHANGED nonFoutVars

FoutNext == F_outputBuffer

\* ------------------------------------------------ create_exif_data
\* Entries are kept by tag, their data as sequences of bytes (strings as
\* ASCII codes); entry is the tag the local variable entry points to, and
\* beforeIso is the value of data when the ISO step began.
ExifTags ==
    {"MAKE", "MODEL", "SOFTWARE", "DATE_TIME", "DATE_TIME_ORIGINAL", "DATE_TIME_DIGITIZED",
     "EXPOSURE_TIME", "ISO_SPEED_RATINGS", "FNUMBER", "USER_COMMENT", "FOCAL_LENGTH"}

MAKE_STRING == <<87, 97, 115, 115, 111, 99>>

ModelString == <<83, 104, 97, 100, 111, 119, 103, 114, 97, 112, 104, 45, 118, 51>>

\* strftime("%Y:%m:%d %H:%M:%S") of two clock readings
TimeStrings ==
    {<<50, 48, 50, 54, 58, 49, 49, 58, 48, 49, 32, 49, 50, 58, 48, 48, 58, 48, 48>>,
     <<49, 57, 55, 48, 58, 48, 49, 58, 48, 49, 32, 48, 48, 58, 48, 48, 58, 48, 48>>}

Absent == [defined |-> FALSE, value |-> 0]

Present(v) == [defined |-> TRUE, value |-> v]

ShutterSpeeds == {Absent, Present(1000), Present(300000)}

Gains == {Absent, Present(1), Present(2)}

\* EXIF_BYTE_ORDER_INTEL: least significant byte first
ShortBytes(v) == <<v % 256, (v \div 256) % 256>>

LongBytes(v) == ShortBytes(v % 65536) \o ShortBytes(v \div 65536)

\* exif_set_short(data, order, v): the first two bytes of data
exif_set_short(data, v) ==
    [i \in 1 .. Len(data) |-> IF i <= 2 THEN ShortBytes(v)[i] ELSE data[i]]

\* exif_set_rational(data, order, {num, den}): the first eight bytes of data
exif_set_rational(num, den) == LongBytes(num) \o LongBytes(den)

\* float ag = 1.0 unless the metadata has it
GainOr1(g) == IF g.defined THEN g.value ELSE 1

ExifInit ==
    \E sh \in ShutterSpeeds, ag \in Gains, dg \in Gains, t \in TimeStrings :
        exif = [pc |-> "basic", shutter_speed |-> sh, analogue_gain |-> ag,
                digital_gain |-> dg, time_string |-> t,
                created |-> {}, data |-> [tag \in ExifTags |-> <<>>],
                entry |-> "none", beforeIso |-> [tag \in ExifTags |-> <<>>]]

\* MAKE, MODEL, SOFTWARE and the three date tags, each exif_set_string
X_Basic ==
    /\ exif.pc = "basic"
    /\ exif' = [exif EXCEPT
          !.created = {"MAKE", "MODEL", "SOFTWARE", "DATE_TIME", "DATE_TIME_ORIGINAL",
                       "DATE_TIME_DIGITIZED"},
          !.data = [@ EXCEPT !["MAKE"] = MAKE_STRING, !["MODEL"] = ModelString,
                             !["SOFTWARE"] = ModelString,
                             !["DATE_TIME"] = exif.time_string,
                             !["DATE_TIME_ORIGINAL"] = exif.time_string,
                             !["DATE_TIME_DIGITIZED"] = exif.time_string],
          !.entry = "DATE_TIME_DIGITIZED", !.pc = "exposure"]
    /\ UNCHANGED nonExifVars

X_Exposure ==
    /\ exif.pc = "exposure"
    /\ exif' = IF exif.shutter_speed.defined
               THEN [exif EXCEPT !.created = @ \cup {"EXPOSURE_TIME"},
                                 !.data["EXPOSURE_TIME"] =
                                     exif_set_rational(exif.shutter_speed.value, 1000000),
                                 !.entry = "EXPOSURE_TIME", !.pc = "iso"]
               ELSE [exif EXCEPT !.pc = "iso"]
    /\ UNCHANGED nonExifVars

\* if (agDefined == 0) entry = exif_create_tag(.., ISO_SPEED_RATINGS);
\* if (dgDefined == 0) exif_set_short(entry->data, .., 100 * ag * dg);
X_Iso ==
    /\ exif.pc = "iso"
    /\ LET tagged == IF exif.analogue_gain.defined
                     THEN [exif EXCEPT !.created = @ \cup {"ISO_SPEED_RATINGS"},
                                       !.data["ISO_SPEED_RATINGS"] = <<0, 0>>,
                                       !.entry = "ISO_SPEED_RATINGS"]
                     ELSE exif
           gain == GainOr1(exif.analogue_gain) * GainOr1(exif.digital_gain)
           written == IF exif.digital_gain.defined
                      THEN [tagged EXCEPT !.data[tagged.entry] = exif_set_short(@, 100 * gain)]
                      ELSE tagged
       IN  exif' = [written EXCEPT !.beforeIso = exif.data, !.pc = "rest"]
    /\ UNCHANGED nonExifVars

\* FNUMBER 16/1, FOCAL_LENGTH 12/1 (lamp colour and serial number left out)
X_Rest ==
    /\ exif.pc = "rest"
    /\ exif' = [exif EXCEPT !.created = @ \cup {"FNUMBER", "FOCAL_LENGTH"},
                             !.data["FNUMBER"] = exif_set_rational(16, 1),
                             !.data["FOCAL_LENGTH"] = exif_set_rational(12, 1),
                             !.entry = "FOCAL_LENGTH", !.pc = "saved"]
    /\ UNCHANGED nonExifVars

ExifNext ==
    \/ X_Basic
    \/ X_Exposure
    \/ X_Iso
    \/ X_Rest

\* ------------------------------------------------ GpioHandler
\* A lamp pattern is a sequence of characters; a colour is the sequence of
\* characters between two commas.  lastRead and prevRead are the indices of
\* the last two reads of lamp_pattern_vec (-1: none yet).
MaxPattern == 3

PatternChars == {"R", "w", "x", ","}

LampPatterns == UNION {[1 .. n -> PatternChars] : n \in 0 .. MaxPattern}

\* values an unsigned int that was never assigned may hold
Indeterminate == 0 .. 2

RECURSIVE SplitPattern(_, _)
\* while ((end = find(',', start)) != npos) push_back(substr(...)); push_back(substr(start))
SplitPattern(pattern, piece) ==
    IF pattern = <<>> THEN <<piece>>
    ELSE IF Head(pattern) = "," THEN <<piece>> \o SplitPattern(Tail(pattern), <<>>)
    ELSE SplitPattern(Tail(pattern), Append(piece, Head(pattern)))

RECURSIVE ActiveChannels(_)
ActiveChannels(color) ==
    IF color = <<>> THEN <<>>
    ELSE (CASE Head(color) \in {"R", "r"} -> <<0>>
            [] Head(color) \in {"G", "g"} -> <<1>>
            [] Head(color) \in {"B", "b"} -> <<2>>
            [] Head(color) \in {"W", "w"} -> <<0, 1, 2>>
            [] OTHER -> <<>>) \o ActiveChannels(Tail(color))

GpioInit ==
    \E pattern \in LampPatterns :
        gpio = [pc |-> "new", lamp_pattern |-> pattern, tx_serial_open |-> FALSE,
                lamp_pattern_vec |-> <<>>, lamp_pattern_index |-> 0,
                active_channels |-> <<>>, lastRead |-> -1, prevRead |-> -1]

\* GpioHandler(): both serial ports tried, lamp_pattern parsed
Gpio_Construct ==
    /\ gpio.pc = "new"
    /\ gpio' = [gpio EXCEPT !.pc = "ready", !.tx_serial_open = TRUE,
                             !.lamp_pattern_vec = SplitPattern(gpio.lamp_pattern, <<>>),
                             !.lamp_pattern_index = 0]
    /\ UNCHANGED nonGpioVars

\* GpioHandler(): initSerial(tx_serial_device) fails and the constructor
\* returns; lamp_pattern_vec stays empty and lamp_pattern_index unassigned
Gpio_ConstructNoSerial ==
    /\ gpio.pc = "new"
    /\ \E garbage \in Indeterminate :
          gpio' = [gpio EXCEPT !.pc = "ready", !.lamp_pattern_index = garbage]
    /\ UNCHANGED nonGpioVars

\* the index setNextLampColor uses after its wrap test
WrappedIndex(g) ==
    IF g.lamp_pattern_index = Len(g.lamp_pattern_vec) THEN 0 ELSE g.lamp_pattern_index

Gpio_setNextLampColor ==
    /\ gpio.pc = "ready"
    /\ WrappedIndex(gpio) < Len(gpio.lamp_pattern_vec)
    /\ LET i == WrappedIndex(gpio)
           channels == ActiveChannels(gpio.lamp_pattern_vec[i + 1])
       IN  gpio' = [gpio EXCEPT !.lamp_pattern_index = i + 1,
                                !.active_channels = IF channels = <<>> THEN <<0>> ELSE channels,
                                !.prevRead = gpio.lastRead, !.lastRead = i]
    /\ UNCHANGED nonGpioVars

\* lamp_pattern_vec[lamp_pattern_index] past the end of the vector: undefined
\* behaviour, whatever follows is not modelled
Gpio_setNextLampColorOutside ==
    /\ gpio.pc = "ready"
    /\ WrappedIndex(gpio) >= Len(gpio.lamp_pattern_vec)
    /\ gpio' = [gpio EXCEPT !.pc = "undefined", !.prevRead = gpio.lastRead,
                             !.lastRead = WrappedIndex(gpio)]
    /\ UNCHANGED nonGpioVars

GpioNext ==
    \/ Gpio_Construct
    \/ Gpio_ConstructNoSerial
    \/ Gpio_setNextLampColor
    \/ Gpio_setNextLampColorOutside

\* ------------------------------------------------ one thumbnail sample
\* uint32_t grey = s00 + s01 + s10 + s11; grey = (grey << 14) >> bits;
\* grey = sqrt((double)grey); thumb_buf[..] = grey;   (each step an action)
RegistryBits == {bayer_formats[k].bits : k \in DOMAIN bayer_formats}

\* Samples tried for a depth: the ends and the middle of its range, and the
\* largest value a uint16_t holds (beyond the range unless bits = 16).
GreySamples(bits) == {0, 1, 2 ^ (bits - 1), (2 ^ bits) - 1, 65535}

GreyShift == 14

\* (grey << GreyShift) >> bits on a uint32_t: the left shift keeps the low
\* 32 - GreyShift bits of grey.
ShiftCarries(sum) == sum >= 2 ^ (32 - GreyShift)

\* the same shift with the depth of the samples ignored (always 8 bits)
GreyShiftedAs8Bit(sum, bits) ==
    LET kept == sum % (2 ^ (32 - GreyShift))
    IN  kept * (2 ^ (GreyShift - 8))

GreyShifted(sum, bits) ==
    LET kept == sum % (2 ^ (32 - GreyShift))
    IN  IF bits <= GreyShift THEN kept * (2 ^ (GreyShift - bits))
        ELSE kept \div (2 ^ (bits - GreyShift))

\* the conversion of sqrt((double)grey) to uint32_t drops the fraction
Isqrt(n) == CHOOSE r \in 0 .. 4096 : r * r <= n /\ (r + 1) * (r + 1) > n

GreyInit ==
    \E bits \in RegistryBits :
        \E s \in [1 .. 4 -> GreySamples(bits)] :
            grey = [pc |-> "sum", bits |-> bits, s |-> s, grey |-> 0,
                    carried |-> FALSE, channel |-> 0]

G_Sum ==
    /\ grey.pc = "sum"
    /\ grey' = [grey EXCEPT !.grey = grey.s[1] + grey.s[2] + grey.s[3] + grey.s[4],
                             !.pc = "shift"]
    /\ UNCHANGED nonGreyVars

G_Shift ==
    /\ grey.pc = "shift"
    /\ grey' = [grey EXCEPT !.grey = GreyShifted(@, grey.bits),
                             !.carried = ShiftCarries(grey.grey), !.pc = "sqrt"]
    /\ UNCHANGED nonGreyVars

G_Sqrt ==
    /\ grey.pc = "sqrt"
    /\ grey' = [grey EXCEPT !.grey = Isqrt(@), !.pc = "store"]
    /\ UNCHANGED nonGreyVars

G_Store ==
    /\ grey.pc = "store"
    /\ grey' = [grey EXCEPT !.channel = U8(grey.grey), !.pc = "stored"]
    /\ UNCHANGED nonGreyVars

GreyNext ==
    \/ G_Sum
    \/ G_Shift
    \/ G_Sqrt
    \/ G_Store

\* ------------------------------------------------ TiffMemoryBuffer
\* ret tells whether the last call returned -1 or its regular result (the
\* size written, the new position).  data is kept for the offsets below MaxOffset; "U" is a byte of the
\* allocation that no write has stored yet.  The fields stored, maxEnd and
\* overwritten record the history of the successful tiff_write calls (the
\* bytes of the last write that covered each offset, the largest end offset,
\* whether a stored byte was replaced by a different one); the code has no
\* such fields, they are kept for the properties only.
MaxOffset == 4

MaxWrite == 2

ByteValues == {"a", "b"}

InitialCapacities == {0, 3}

ExtraSpace == 1024 * 1024

Offsets == 0 .. (MaxOffset - 1)

TbufInit ==
    \E cap \in InitialCapacities :
        tbuf = [pc |-> "open", data |-> [o \in Offsets |-> "U"], size |-> 0,
                capacity |-> cap, position |-> 0, failed |-> FALSE,
                stored |-> [o \in Offsets |-> "U"], maxEnd |-> 0,
                overwritten |-> FALSE, ret |-> "none"]

TbufOpen == tbuf.pc = "open"

\* new_capacity of tiff_write
WriteCapacity(b, n) ==
    IF b.capacity * 2 < b.position + n THEN b.position + n + ExtraSpace ELSE b.capacity * 2

NewSizeAlways(position, size) == position

\* if (buffer->position > buffer->size) buffer->size = buffer->position;
NewSize(position, size) == IF position > size THEN position ELSE size

\* memcpy(buffer->data + buffer->position, data, size)
Memcpy(data, at, bytes) ==
    [o \in Offsets |-> IF o >= at /\ o < at + Len(bytes) THEN bytes[o - at + 1] ELSE data[o]]

tiff_write(b, bytes) ==
    LET n == Len(bytes)
        grown == IF b.position + n > b.capacity
                 THEN [b EXCEPT !.capacity = WriteCapacity(b, n)] ELSE b
    IN  [grown EXCEPT !.data = Memcpy(@, b.position, bytes),
                      !.position = @ + n,
                      !.size = NewSize(b.position + n, @),
                      !.ret = "ok"]

Whences == {"SEEK_SET", "SEEK_CUR", "SEEK_END"}

\* position after the switch (whence) of tiff_seek; -1 for the default case
SeekTarget(b, offset, whence) ==
    CASE whence = "SEEK_SET" -> offset
      [] whence = "SEEK_CUR" -> b.position + offset
      [] whence = "SEEK_END" -> b.size + offset
      [] OTHER -> -1

tiff_seek(b, offset, whence) ==
    LET pos == SeekTarget(b, offset, whence)
        moved == [b EXCEPT !.position = pos, !.ret = "ok"]
    IN  IF pos > b.capacity THEN [moved EXCEPT !.capacity = pos + ExtraSpace] ELSE moved

\* The history after a write of bytes at offset at.
Written(b, at, bytes) ==
    LET covered == {o \in Offsets : o >= at /\ o < at + Len(bytes)}
    IN  [b EXCEPT !.stored = [o \in Offsets |-> IF o \in covered THEN bytes[o - at + 1] ELSE @[o]],
                  !.maxEnd = IF at + Len(bytes) > @ THEN at + Len(bytes) ELSE @,
                  !.overwritten = @ \/ \E o \in covered :
                                          b.stored[o] # "U" /\ b.stored[o] # bytes[o - at + 1]]

\* A failed realloc ends the run: nothing is claimed after it.
NoMemory(b) == [b EXCEPT !.failed = TRUE, !.pc = "nomem", !.ret = "-1"]

T_Write ==
    /\ TbufOpen
    /\ \E n \in 0 .. MaxWrite : \E bytes \in [1 .. n -> ByteValues] :
          /\ tbuf.position + n <= MaxOffset
          /\ tbuf' = Written(tiff_write(tbuf, bytes), tbuf.position, bytes)
    /\ UNCHANGED nonTbufVars

\* realloc returns NULL: tiff_write returns -1 and leaves the buffer alone
T_WriteNoMemory ==
    /\ TbufOpen
    /\ \E n \in 1 .. MaxWrite :
          /\ tbuf.position + n > tbuf.capacity
          /\ tbuf' = NoMemory(tbuf)
    /\ UNCHANGED nonTbufVars

T_Seek ==
    /\ TbufOpen
    /\ \E whence \in Whences, pos \in 0 .. MaxOffset :
          LET offset == pos - SeekTarget(tbuf, 0, whence)
          IN  tbuf' = tiff_seek(tbuf, offset, whence)
    /\ UNCHANGED nonTbufVars

\* default: return -1
T_SeekBadWhence ==
    /\ TbufOpen
    /\ tbuf' = [tbuf EXCEPT !.ret = "-1"]
    /\ UNCHANGED nonTbufVars

\* realloc returns NULL in tiff_seek: position is already moved
T_SeekNoMemory ==
    /\ TbufOpen
    /\ \E pos \in 0 .. MaxOffset :
          /\ pos > tbuf.capacity
          /\ tbuf' = NoMemory([tbuf EXCEPT !.position = pos])
    /\ UNCHANGED nonTbufVars

\* tiff_close is a no-op; the caller then reads data[0 .. size)
T_Close ==
    /\ tbuf.pc = "open"
    /\ tbuf' = [tbuf EXCEPT !.pc = "closed"]
    /\ UNCHANGED nonTbufVars

TbufNext ==
    \/ T_Write
    \/ T_WriteNoMemory
    \/ T_Seek
    \/ T_SeekBadWhence
    \/ T_SeekNoMemory
    \/ T_Close

\* ------------------------------------------------ event_loop of rpicam-raw
\* Two versions of the loop are in the sources: "apps" starts count at 0
\* (src/apps/rpicam_raw.cpp:74) and "warmup" starts it at -1, drops the first
\* message and polls signal_received (src/unnamed/part_004:255).
MaxCount == 5

LoopVariants == {"apps", "warmup"}

TotalFramesValues == {0, 1, 2}

EveryNthValues == {1, 2}

FirstCount(variant) == IF variant = "warmup" THEN -1 ELSE 0

LoopInit ==
    \E v \in LoopVariants, n \in TotalFramesValues, nth \in EveryNthValues,
       iv \in BOOLEAN, to \in BOOLEAN :
        loop = [pc |-> "wait", variant |-> v, total_frames |-> n,
                every_nth_frame |-> IF v = "apps" THEN 1 ELSE nth,
                capture_interval |-> iv, timeout |-> to,
                count |-> FirstCount(v), framesCaptured |-> 0,
                log |-> <<"StartEncoder", "StartCamera">>, why |-> "none"]

\* One more iteration of the for loop is taken (count stays below the bound).
Looping == loop.pc = "wait" /\ loop.count < MaxCount

\* if (count == 0) { info = GetStreamInfo(); output->setStreamInfo(&info); }
Register(l) ==
    IF l.count = 0 THEN [l EXCEPT !.log = Append(@, "setStreamInfo")] ELSE l

StopAndReturn(l, why) ==
    [l EXCEPT !.log = @ \o <<"StopCamera", "StopEncoder">>, !.pc = "returned", !.why = why]

TotalReachedLate(l) == l.total_frames # 0 /\ l.framesCaptured > l.total_frames

TotalReached(l) == l.total_frames # 0 /\ l.framesCaptured = l.total_frames

\* The frame filters: capture_interval first, every_nth_frame only without it.
NthSkips(l) == l.every_nth_frame > 1 /\ l.count % l.every_nth_frame # 0

L_Signal ==
    /\ Looping /\ loop.variant = "warmup"
    /\ loop' = StopAndReturn(loop, "signal")
    /\ UNCHANGED nonLoopVars

L_WarmUp ==
    /\ Looping /\ loop.count = -1
    /\ loop' = [loop EXCEPT !.count = @ + 1]
    /\ UNCHANGED nonLoopVars

L_DeviceTimeout ==
    /\ Looping /\ loop.count # -1
    /\ loop' = [loop EXCEPT !.log = @ \o <<"StopCamera", "StartCamera">>, !.count = @ + 1]
    /\ UNCHANGED nonLoopVars

L_Unrecognised ==
    /\ Looping /\ loop.count # -1
    /\ loop' = [loop EXCEPT !.pc = "thrown"]
    /\ UNCHANGED nonLoopVars

L_OptionTimeout ==
    /\ Looping /\ loop.count # -1 /\ loop.timeout
    /\ loop' = StopAndReturn(Register(loop), "timeout")
    /\ UNCHANGED nonLoopVars

L_SkipInterval ==
    /\ Looping /\ loop.count # -1 /\ loop.capture_interval
    /\ loop' = [Register(loop) EXCEPT !.count = @ + 1]
    /\ UNCHANGED nonLoopVars

L_SkipNth ==
    /\ Looping /\ loop.count # -1 /\ ~loop.capture_interval /\ NthSkips(loop)
    /\ loop' = [Register(loop) EXCEPT !.count = @ + 1]
    /\ UNCHANGED nonLoopVars

L_Encode ==
    /\ Looping /\ loop.count # -1
    /\ loop.capture_interval \/ ~NthSkips(loop)
    /\ LET enc == [Register(loop) EXCEPT !.log = Append(@, "EncodeBuffer"),
                                           !.framesCaptured = @ + 1]
       IN  loop' = IF TotalReached(enc) THEN StopAndReturn(enc, "total_frames")
                   ELSE [enc EXCEPT !.count = @ + 1]
    /\ UNCHANGED nonLoopVars

LoopNext ==
    \/ L_Signal
    \/ L_WarmUp
    \/ L_DeviceTimeout
    \/ L_Unrecognised
    \/ L_OptionTimeout
    \/ L_SkipInterval
    \/ L_SkipNth
    \/ L_Encode

UnpackOff == u_pc = "off" /\ u_in = <<>> /\ u_out = <<>>

Init == ThreadInit /\ UnpackOff /\ DecompOff /\ MatrixOff /\ NullOff /\ AuxOff /\ EncOff

Next ==
    \/ EncodeBuffer
    \/ \E n \in Workers : EncodeTake(n)
    \/ \E n \in Workers : EncodeExit(n)
    \/ \E n \in Workers : EncodePush(n)
    \/ \E n \in Workers : EncodeThrow(n)
    \/ OutputTake
    \/ OutputDeliver
    \/ OutputExit
    \/ DtorStart
    \/ DtorJoinEncode
    \/ DtorJoinOutput

Spec == Init /\ [][Next]_vars

InitUnpack == ThreadInit /\ UnpackInit /\ DecompOff /\ MatrixOff /\ NullOff /\ AuxOff /\ EncOff

SpecUnpack == InitUnpack /\ [][UnpackNext]_vars

InitUnpackOdd == ThreadInit /\ UnpackOddInit /\ DecompOff /\ MatrixOff /\ NullOff /\ AuxOff /\ EncOff

SpecUnpackOdd == InitUnpackOdd /\ [][UnpackNext]_vars

InitEncode == ThreadInit /\ UnpackOff /\ DecompOff /\ MatrixOff /\ NullOff /\ AuxOff /\ EncInit

SpecEncode == InitEncode /\ [][EncNext]_vars

InitSizes == ThreadInit /\ UnpackOff /\ DecompOff /\ MatrixOff /\ NullOff /\ AuxOff /\ SizesInit

SpecSizes == InitSizes /\ [][EncNext]_vars

InitMeta == ThreadInit /\ UnpackOff /\ DecompOff /\ MatrixOff /\ NullOff /\ AuxOff /\ MetaInit

SpecMeta == InitMeta /\ [][EncNext]_vars

InitRoi == ThreadInit /\ UnpackOff /\ DecompOff /\ MatrixOff /\ NullOff /\ AuxOff /\ RoiInit

SpecRoi == InitRoi /\ [][EncNext]_vars

InitLoop ==
    /\ ThreadInit /\ UnpackOff /\ DecompOff /\ MatrixOff /\ NullOff /\ EncOff
    /\ LoopInit /\ TbufOff /\ GreyOff /\ GpioOff /\ ExifOff /\ FoutOff

SpecLoop == InitLoop /\ [][LoopNext]_vars

InitTbuf ==
    /\ ThreadInit /\ UnpackOff /\ DecompOff /\ MatrixOff /\ NullOff /\ EncOff
    /\ LoopOff /\ TbufInit /\ GreyOff /\ GpioOff /\ ExifOff /\ FoutOff

SpecTbuf == InitTbuf /\ [][TbufNext]_vars

InitGrey ==
    /\ ThreadInit /\ UnpackOff /\ DecompOff /\ MatrixOff /\ NullOff /\ EncOff
    /\ LoopOff /\ TbufOff /\ GreyInit /\ GpioOff /\ ExifOff /\ FoutOff

SpecGrey == InitGrey /\ [][GreyNext]_vars

InitGpio ==
    /\ ThreadInit /\ UnpackOff /\ DecompOff /\ MatrixOff /\ NullOff /\ EncOff
    /\ LoopOff /\ TbufOff /\ GreyOff /\ GpioInit /\ ExifOff /\ FoutOff

SpecGpio == InitGpio /\ [][GpioNext]_vars

InitExif ==
    /\ ThreadInit /\ UnpackOff /\ DecompOff /\ MatrixOff /\ NullOff /\ EncOff
    /\ LoopOff /\ TbufOff /\ GreyOff /\ GpioOff /\ ExifInit /\ FoutOff

SpecExif == InitExif /\ [][ExifNext]_vars

InitFout ==
    /\ ThreadInit /\ UnpackOff /\ DecompOff /\ MatrixOff /\ NullOff /\ EncOff
    /\ LoopOff /\ TbufOff /\ GreyOff /\ GpioOff /\ ExifOff /\ FoutInit

SpecFout == InitFout /\ [][FoutNext]_vars

InitDecomp == ThreadInit /\ UnpackOff /\ DecompInit /\ MatrixOff /\ NullOff /\ AuxOff /\ EncOff

SpecDecomp == InitDecomp /\ [][DecompNext]_vars

InitMatrix == ThreadInit /\ UnpackOff /\ DecompOff /\ MatrixInit /\ NullOff /\ AuxOff /\ EncOff

SpecMatrix == InitMatrix /\ [][MatrixNext]_vars

InitNull == ThreadInit /\ UnpackOff /\ DecompOff /\ MatrixOff /\ NullInit /\ AuxOff /\ EncOff

SpecNull == InitNull /\ [][NullNext]_vars

\* Every thread is scheduled: the OS runs each worker and the output thread, and the
\* destructor, once entered, runs to its joins (wait_for polls every 200ms).
FairSpec ==
    /\ Init /\ [][Next]_vars
    /\ \A n \in Workers : WF_vars(EncodeThreadStep(n))
    /\ WF_vars(OutputThreadStep)
    /\ WF_vars(DtorJoinEncode \/ DtorJoinOutput)

\* ------------------------------------------------- claims on the DngEncoder
\* Frame j left encodeDNG without an exception and its OutputItem was pushed.
EncodedOk(j) ==
    \/ \E i \in 1 .. Len(delivered) : delivered[i] = j
    \/ outPc = "got_item" /\ outItem = j
    \/ \E n \in Workers : \E i \in 1 .. Len(output_queue_[n]) : output_queue_[n][i] = j

WasDelivered(j) == \E i \in 1 .. Len(delivered) : delivered[i] = j

AllQueuesEmpty ==
    /\ encode_queue_ = <<>>
    /\ \A n \in Workers : output_queue_[n] = <<>>

\* C1: a frame whose encode failed never blocks later frames: every frame with a
\* greater index that encoded successfully is eventually handed to
\* output_ready_callback_.
C1_FailedFrameBlocksNothing ==
    \A j \in 0 .. (MaxFrames - 1) :
        (EncodedOk(j) /\ \E k \in failed : k < j) ~> WasDelivered(j)

\* C2: output_ready_callback_ is called in strictly increasing index order (the
\* order of the EncodeBuffer calls), each frame at most once.
C2_DeliveryInIndexOrder ==
    \A i, j \in 1 .. Len(delivered) : i < j => delivered[i] < delivered[j]

\* C2 witness: a frame has been delivered while a later frame, completed out of
\* order, waits in a worker queue for a frame that is not yet pushed.
C2_Witness ==
    /\ Len(delivered) >= 1
    /\ \E n \in Workers :
         output_queue_[n] # <<>> /\ Head(output_queue_[n]) > outIndex
    /\ \E m \in Workers : encPc[m] = "encoding" /\ encode_item[m] = outIndex

\* C3: the destructor always terminates: once it has started, both joins return.
C3_DestructorTerminates == (dtorPc # "alive") ~> (dtorPc = "closed")

\* C4: when every encode succeeds, every frame submitted before the destructor
\* started has been delivered when it returns; an encode thread exits only when
\* encode_queue_ is empty, the output thread only when every worker queue is
\* empty, and no frame is left in any queue.
C4_DrainedAtClose ==
    /\ (\E n \in Workers : encPc[n] = "exited") => encode_queue_ = <<>>
    /\ outPc = "exited" => \A n \in Workers : output_queue_[n] = <<>>
    /\ (dtorPc = "closed" /\ failed = {}) =>
          /\ delivered = [i \in 1 .. index_ |-> i - 1]
          /\ AllQueuesEmpty

\* C4 witness: the destructor returned after several frames, all encoded, one of
\* them pushed by each of two workers.
C4_Witness ==
    /\ dtorPc = "closed"
    /\ failed = {}
    /\ index_ >= 2
    /\ Len(delivered) = index_

\* ---------------------------------------------- claims on the unpack routines
\* Bit k (from 0, most significant bit of each byte first) of a byte stream.
StreamBit(bytes, k) == (bytes[(k \div 8) + 1] \div (2 ^ (7 - (k % 8)))) % 2

\* The n-bit field that starts at bit k of a byte stream, MSB first.
RECURSIVE FieldFrom(_, _, _)
FieldFrom(bytes, k, n) ==
    IF n = 0 THEN 0
    ELSE StreamBit(bytes, k) * (2 ^ (n - 1)) + FieldFrom(bytes, k + 1, n - 1)

Ran(routine) == u_pc = "done" /\ u_out.routine = routine

\* The byte buffer holds exactly the samples vals as consecutive n-bit fields.
HoldsFields(bytes, vals, n) ==
    /\ Len(bytes) * 8 = Len(vals) * n
    /\ \A i \in 1 .. Len(vals) : FieldFrom(bytes, (i - 1) * n, n) = vals[i]

\* C7: unpack_10bit reproduces every row of 4k samples in [0,1023] packed in the
\* sensor's 10-bit layout, for every stride >= 5k: the 16-bit buffer holds the
\* samples in order, the byte buffer holds them as consecutive MSB-first 10-bit
\* fields, and the bytes between the packed row and the stride have no influence.
C7_Unpack10RoundTrip ==
    Ran("unpack_10bit") =>
        /\ u_out.dest16 = u_in.vals
        /\ HoldsFields(u_out.dest, u_in.vals, 10)

\* C7 witness: two padded rows of two groups, the padding non-zero, samples with
\* both LSB patterns.
C7_Witness ==
    /\ Ran("unpack_10bit")
    /\ u_in.info = [width |-> 8, height |-> 2, stride |-> 12]
    /\ u_in.src[12] = 255
    /\ u_out.dest16[1] = 341 /\ u_out.dest16[2] = 682 /\ u_out.dest16[3] = 1023

\* C8: unpack_12bit reproduces every row of 2k samples in [0,4095] packed in the
\* sensor's 12-bit layout, for every stride >= 3k: the 16-bit buffer holds the
\* samples in order and the byte buffer holds them as consecutive MSB-first
\* 12-bit fields.
C8_Unpack12RoundTrip ==
    Ran("unpack_12bit") =>
        /\ u_out.dest16 = u_in.vals
        /\ HoldsFields(u_out.dest, u_in.vals, 12)

\* C8 witness: two padded rows, samples with distinct nibbles in one group.
C8_Witness ==
    /\ Ran("unpack_12bit")
    /\ u_in.info = [width |-> 8, height |-> 2, stride |-> 14]
    /\ u_in.src[14] = 255
    /\ u_out.dest16[1] = 1365 /\ u_out.dest16[2] = 2730 /\ u_out.dest16[3] = 4095

\* The scaled samples a scaling routine stored in the byte buffer.
ScaledOut(i) ==
    IF u_out.routine = "unpack_12bit_to_8bit" THEN u_out.dest[i]
    ELSE FieldFrom(u_out.dest, (i - 1) * 10, 10)

OutMax == IF u_out.routine = "unpack_12bit_to_8bit" THEN 256 ELSE 1024

\* C9: in unpack_12bit_to_8bit and unpack_12bit_to_10bit the stored sample is
\* floor(v * outMax / 4096) of the reconstructed 12-bit value v (outMax 256 and
\* 1024), non-decreasing in v, and 4095 maps to 255 and 1023.
C9_ScaleDownFloorMonotone ==
    (Ran("unpack_12bit_to_8bit") \/ Ran("unpack_12bit_to_10bit")) =>
        LET out == [i \in 1 .. Len(u_in.vals) |-> ScaledOut(i)]
        IN  /\ Len(u_out.dest) * 8 = Len(u_in.vals) * (IF OutMax = 256 THEN 8 ELSE 10)
            /\ \A i \in 1 .. Len(u_in.vals) :
                 /\ out[i] * 4096 <= u_in.vals[i] * OutMax
                 /\ u_in.vals[i] * OutMax < (out[i] + 1) * 4096
                 /\ u_in.vals[i] = 4095 => out[i] = OutMax - 1
            /\ \A i, j \in 1 .. Len(u_in.vals) :
                 u_in.vals[i] <= u_in.vals[j] => out[i] <= out[j]

\* C9 witness: the two largest native values, side by side, scaled to 10 bits.
C9_Witness ==
    /\ Ran("unpack_12bit_to_10bit")
    /\ u_in.vals[1] = 4094 /\ u_in.vals[2] = 4095
    /\ ScaledOut(1) = 1023 /\ ScaledOut(2) = 1023

\* ------------------------------------------- claims on encodeDNG / dng_save
Count(log, what) == Cardinality({i \in 1 .. Len(log) : log[i] = what})

\* The calls of the serialization protocol (everything but the catch block's).
ProtocolCalls ==
    {"thumb_fields", "thumb_scanline", "main_fields", "main_scanline", "exif_fields",
     "TIFFWriteDirectory", "TIFFCheckpointDirectory", "offset_subifd", "offset_exififd",
     "TIFFCreateEXIFDirectory", "TIFFSetDirectory0", "patch_offsets",
     "TIFFUnlinkDirectory2"}

\* C5: with a pixel format that is no key of bayer_formats, encodeDNG and dng_save
\* fail with "unsupported Bayer format" before buf8bit, buf16Bit or the TIFF sink
\* buffer is allocated and before anything is written; the output buffer pointer
\* and length stay unset.
C5_UnsupportedFormatFailsFirst ==
    (e_cfg.fmt \notin FormatKeys(e_cfg.variant)) =>
        /\ e_pc \in {"start", "thrown", "skipped"}
        /\ e_pc # "start" => e_st.error = "unsupported Bayer format"
        /\ e_st.allocated = {}
        /\ e_st.mem_buffer = "none"
        /\ e_st.tif = "null"
        /\ e_st.sinkWrites = 0
        /\ e_log = <<>>
        /\ e_st.encoded_buffer = "nullptr" /\ e_st.buffer_len = 0
        /\ ~e_st.pushed

\* C5 witness: the worker has caught the exception of an unknown format.
C5_Witness ==
    /\ e_pc = "skipped"
    /\ e_cfg.fmt = "YUV420"
    /\ e_st.error = "unsupported Bayer format"

\* C6: once a TIFFWriteScanline call has failed (thumbnail or main image),
\* encodeDNG makes no later call of the serialization protocol, throws, leaves
\* encoded_buffer and buffer_len unset, and the worker pushes no OutputItem; an
\* output exists only for a complete byte stream.
C6_ScanlineFailureAborts ==
    /\ \A i \in 1 .. Len(e_log) :
         e_log[i] = "failed_scanline" =>
            /\ \A j \in (i + 1) .. Len(e_log) : e_log[j] \notin ProtocolCalls
            /\ e_pc \in {"thrown", "skipped"}
            /\ e_st.error \in {"error writing DNG thumbnail data",
                               "error writing DNG image data"}
            /\ e_st.encoded_buffer = "nullptr" /\ e_st.buffer_len = 0
            /\ ~e_st.pushed
    /\ (e_st.pushed \/ e_st.encoded_buffer # "nullptr") =>
            /\ e_pc \in {"returned", "pushed"}
            /\ e_st.error = "none"
            /\ Count(e_log, "thumb_scanline") = ThumbRows(e_cfg)
            /\ Count(e_log, "main_scanline") = MainRows(e_st)
            /\ SubSeq(e_log, Len(e_log) - Len(FinishCalls) + 1, Len(e_log)) = FinishCalls

\* C6 witness: a main-image scanline failed after the thumbnail and some rows were
\* written, and the worker skipped the frame.
C6_Witness ==
    /\ e_pc = "skipped"
    /\ e_st.error = "error writing DNG image data"
    /\ Count(e_log, "main_scanline") >= 2
    /\ e_log[Len(e_log) - 3] = "failed_scanline"

\* C10: the BitsPerSample written to the main raw IFD is the bit depth at which
\* the unpack routine that ran packed the samples into the byte buffer.
C10_BitsPerSampleIsPackedDepth ==
    (e_st.BitsPerSample # 0 /\ PackedDepth(e_st.routine) # 0) =>
        e_st.BitsPerSample = PackedDepth(e_st.routine)

\* ------------------------------------- claims on buffer sizes and row tails
\* The unpack routine has run on the two vectors as encodeDNG / dng_save size them.
Unpacked == e_pc \notin {"off", "start"} /\ e_st.routine # "none"

\* C11: with buf8bit of int(width * bytesPerPixel * height) bytes and buf16Bit of
\* paddedWidth * height samples, the dispatched unpack routine stores nothing
\* past the end of either buffer, for every registry format, force flags and size.
C11_UnpackStaysInsideBuffers ==
    Unpacked =>
        /\ e_st.extent.destEnd <= e_st.buf8bitLen
        /\ e_st.extent.dest16End <= e_st.buf16BitLen

\* The group size the row width is rounded down to: 4 pixels where 10-bit groups
\* are produced, 2 pixels for 12-bit groups.
GroupSize(routine) ==
    IF routine \in {"unpack_10bit", "unpack_12bit_to_10bit"} THEN 4 ELSE 2

\* source bits per pixel of a packed routine
SourceBits(routine) == IF routine = "unpack_10bit" THEN 10 ELSE 12

\* C12: each packed routine decodes, in every row, exactly the pixels below the
\* width rounded down to its group size, and reads no source byte and stores no
\* sample of a pixel at or beyond the rounded width.
C12_RowTailLeftUnprocessed ==
    (Unpacked /\ e_st.routine \in PackedRoutines) =>
        LET rounded == AlignDown(e_cfg.info.width, GroupSize(e_st.routine))
        IN  /\ e_st.extent.rowPixels = rounded
            /\ e_st.extent.rowBytes * 8 = rounded * SourceBits(e_st.routine)
            /\ e_st.extent.dest16End = rounded * e_cfg.info.height

\* ------------------------------------------- claims on the metadata fields
\* The sensor's black level for input position i (1: R, 2: Gr, 3: Gb, 4: B), scaled
\* to the format's depth, as a numerator over 65536.
ScaledBlack(i) == e_cfg.meta.SensorBlackLevels[i] * (2 ^ FormatOf(e_cfg).bits)

\* The black-level reorder loop has run.
Reordered == Unpacked /\ e_pc # "crashed" /\ Has(e_cfg, "SensorBlackLevels")

\* C13: with sensor black levels [R, Gr, Gb, B] present, for each CFA order the
\* reorder loop writes each of the four output entries exactly once; the cell whose
\* CFA entry is R receives the R value, the cell whose entry is B the B value, the
\* G cell whose XOR-1 neighbour is R the Gr value, and the G cell whose XOR-1
\* neighbour is B the Gb value.
C13_BlackLevelsFollowCfaOrder ==
    Reordered =>
        LET order == FormatOf(e_cfg).order
            out == e_st.black_levels
        IN  /\ \A j \in 0 .. 3 :
                 Cardinality({i \in 1 .. 4 : e_st.reorder[i] = j}) = 1
            /\ \A c \in 0 .. 3 :
                 /\ order[c + 1] = 0 => out[c + 1] = ScaledBlack(1)
                 /\ order[c + 1] = 2 => out[c + 1] = ScaledBlack(4)
                 /\ (order[c + 1] = 1 /\ order[Xor1(c) + 1] = 0) => out[c + 1] = ScaledBlack(2)
                 /\ (order[c + 1] = 1 /\ order[Xor1(c) + 1] = 2) => out[c + 1] = ScaledBlack(3)

\* C13 witness: a GBRG frame whose four cells hold Gb, B, R, Gr.
C13_Witness ==
    /\ Reordered
    /\ FormatOf(e_cfg).order = TIFF_GBRG
    /\ e_st.black_levels =
          <<ScaledBlack(3), ScaledBlack(4), ScaledBlack(1), ScaledBlack(2)>>

\* C14 as stated: an R cell maps to slot 0, a B cell to slot 3, and a G cell to
\* slot 1 if its partner cell (index XOR 1) is not itself a G, to slot 2 otherwise.
C14_GreenSlotByPartnerNotGreen ==
    Reordered =>
        LET order == FormatOf(e_cfg).order
        IN  \A i \in 0 .. 3 :
              /\ order[i + 1] = 0 => e_st.reorder[i + 1] = 0
              /\ order[i + 1] = 2 => e_st.reorder[i + 1] = 3
              /\ order[i + 1] = 1 =>
                    e_st.reorder[i + 1] = (IF order[Xor1(i) + 1] # 1 THEN 1 ELSE 2)

\* C14 amended: an R cell maps to slot 0, a B cell to slot 3, and a G cell to
\* slot 1 if its partner cell (index XOR 1) is the R cell, to slot 2 otherwise
\* (its partner is then the B cell).
C14_GreenSlotByRedPartner ==
    Reordered =>
        LET order == FormatOf(e_cfg).order
        IN  \A i \in 0 .. 3 :
              /\ order[i + 1] = 0 => e_st.reorder[i + 1] = 0
              /\ order[i + 1] = 2 => e_st.reorder[i + 1] = 3
              /\ order[i + 1] = 1 =>
                    /\ e_st.reorder[i + 1] = (IF order[Xor1(i) + 1] = 0 THEN 1 ELSE 2)
                    /\ order[Xor1(i) + 1] \in {0, 2}

\* C14 witness: RGGB, where the G next to R takes slot 1 and the G next to B slot 2.
C14_Witness ==
    /\ Reordered
    /\ FormatOf(e_cfg).order = TIFF_RGGB
    /\ e_st.reorder = <<0, 1, 2, 3>>

\* A 12-bit packed BGGR frame without black-level metadata whose main IFD is set.
Bggr12NoBlackMeta ==
    /\ Supported(e_cfg)
    /\ FormatOf(e_cfg) = BayerFormat(12, TIFF_BGGR, TRUE, FALSE)
    /\ ~Has(e_cfg, "SensorBlackLevels")
    /\ e_st.BitsPerSample # 0

AllBlackLevelsAre(v) == e_st.black_levels = <<v * 65536, v * 65536, v * 65536, v * 65536>>

\* C15 as stated: for a 12-bit packed BGGR frame with no black-level metadata and
\* neither force flag, the four black levels of the main IFD are 16; with
\* force_8_bit they are 28.
C15_DefaultBlack16 ==
    Bggr12NoBlackMeta =>
        /\ (~e_cfg.force8bit /\ ~e_cfg.force10bit) => AllBlackLevelsAre(16)
        /\ e_cfg.force8bit => AllBlackLevelsAre(28)

\* C15 amended: for a 12-bit packed BGGR frame with no black-level metadata and
\* neither force flag, the four black levels of the main IFD are 256
\* (4096 * 2^12 / 65536); with force_8_bit they are 28.
C15_DefaultBlack256 ==
    Bggr12NoBlackMeta =>
        /\ (~e_cfg.force8bit /\ ~e_cfg.force10bit) => AllBlackLevelsAre(256)
        /\ e_cfg.force8bit => AllBlackLevelsAre(28)

\* C15 witness: the forced 8-bit frame has been encoded with black level 28.
C15_Witness ==
    /\ Bggr12NoBlackMeta
    /\ e_pc = "returned"
    /\ e_cfg.force8bit
    /\ AllBlackLevelsAre(28)

\* The messages of the exceptions encodeDNG and dng_save throw.
EncodeErrors ==
    {"unsupported Bayer format", "bad_alloc", "failed to allocate DNG memory buffer",
     "could not open TIFF", "error writing DNG thumbnail data",
     "error writing DNG image data"}

\* C20: no encode fails because a metadata entry is missing.  For every subset
\* of the six entries that is absent, each absent field takes its default (black
\* 4096 * 2^bits / 65536, or 28 / 68 under the force flags; exposure 10000 us;
\* ISO 100; neutral (1, 1, 1); the built-in CCM; no subject distance) and each
\* present field the value derived from its metadata, and the encode goes on to
\* its end unless a TIFF call or an allocation fails.
C20_MissingMetadataDefaults ==
    /\ e_st.error \in EncodeErrors \cup {"none"}
    /\ (e_pc = "thrown" /\ Supported(e_cfg)) =>
            e_st.error \in EncodeErrors \ {"unsupported Bayer format"}
    /\ (Unpacked /\ e_pc # "crashed") =>
        LET bits == FormatOf(e_cfg).bits
            black == IF e_cfg.force8bit THEN 28 * 65536
                     ELSE IF e_cfg.force10bit THEN 68 * 65536
                     ELSE 4096 * (2 ^ bits)
        IN  /\ IF Has(e_cfg, "SensorBlackLevels")
               THEN \A i \in 1 .. 4 : \E j \in 1 .. 4 : e_st.black_levels[j] = ScaledBlack(i)
               ELSE e_st.black_levels = <<black, black, black, black>>
            /\ e_st.exp_time = (IF Has(e_cfg, "ExposureTime") THEN 20000 ELSE 10000)
            /\ e_st.iso = (IF Has(e_cfg, "AnalogueGain") THEN 250 ELSE 100)
            /\ e_st.NEUTRAL = (IF Has(e_cfg, "ColourGains")
                               THEN << <<4, 8>>, <<1, 1>>, <<4, 6>> >>
                               ELSE << <<1, 1>>, <<1, 1>>, <<1, 1>> >>)
            /\ e_st.CCM = (IF Has(e_cfg, "ColourCorrectionMatrix")
                           THEN e_cfg.meta.ColourCorrectionMatrix
                           ELSE DefaultCCM)
    /\ e_pc \in {"patch", "finish", "returned", "pushed"} =>
            e_st.SubjectDistance =
                (IF ~Has(e_cfg, "LensPosition") THEN <<>>
                 ELSE IF e_cfg.meta.LensPosition = 0 THEN <<1, 0>>
                 ELSE <<4, e_cfg.meta.LensPosition>>)

\* C20 witness: an encode with no metadata entry at all has completed on defaults.
C20_Witness ==
    /\ e_pc = "pushed"
    /\ e_cfg.meta.present = {}
    /\ e_st.error = "none"
    /\ e_st.iso = 100 /\ e_st.exp_time = 10000 /\ e_st.CCM = DefaultCCM
    /\ e_st.SubjectDistance = <<>>

\* C20 witness of a partial subset: only the gain and the lens position present.
C20_WitnessPartial ==
    /\ e_pc = "pushed"
    /\ e_cfg.meta.present = {"AnalogueGain", "LensPosition"}
    /\ e_st.iso = 250 /\ e_st.exp_time = 10000
    /\ e_st.SubjectDistance = <<4, 2>>

\* ---------------------------------------- claims on the region of interest
\* The ROI calculations have run and the main IFD is set.
RoiDone == e_pc \notin {"off", "start"} /\ e_st.BitsPerSample # 0

\* C16: after the ROI computation, for roi_x, roi_y, roi_width, roi_height in
\* [0, 1]: startX + width <= frame width and startY + height <= frame height; when
\* the requested start plus extent exceeds the frame, the end is the frame edge and
\* the extent is the end minus the start.
C16_RoiInsideFrame ==
    RoiDone =>
        LET r == e_st.roi
            W == e_cfg.info.width
            H == e_cfg.info.height
        IN  /\ r.startX + r.width <= W
            /\ r.startY + r.height <= H
            /\ r.endX <= W /\ r.endY <= H
            /\ (r.startX + r.reqWidth > W) => (r.endX = W /\ r.width = W - r.startX)
            /\ (r.startY + r.reqHeight > H) => (r.endY = H /\ r.height = H - r.startY)
            /\ (r.startX + r.reqWidth <= W) => (r.width = r.reqWidth)
            /\ (r.startY + r.reqHeight <= H) => (r.height = r.reqHeight)

\* C16 witness: a region starting at one half with full width and height is cut
\* at the frame edge in both directions.
C16_Witness ==
    /\ RoiDone
    /\ e_cfg.roi = [x |-> 2, y |-> 2, width |-> 4, height |-> 4]
    /\ e_st.roi.startX + e_st.roi.reqWidth > e_cfg.info.width
    /\ e_st.roi.endX = e_cfg.info.width
    /\ e_st.roi.endY = e_cfg.info.height
    /\ e_st.roi.height = 4

\* C17: the ROI start column is a multiple of 4 when the output depth is 10 bits
\* and of 2 when it is 12 bits, so that startX * bytesPerPixel is a whole number
\* of bytes at which a packing group (5 bytes, 3 bytes) begins.
C17_RoiStartOnGroupBoundary ==
    RoiDone =>
        /\ e_st.bitsPerPixel = 10 =>
              /\ e_st.roi.startX % 4 = 0
              /\ RoiOffset4(e_st) % 4 = 0
              /\ (RoiOffset4(e_st) \div 4) % 5 = 0
        /\ e_st.bitsPerPixel = 12 =>
              /\ e_st.roi.startX % 2 = 0
              /\ RoiOffset4(e_st) % 4 = 0
              /\ (RoiOffset4(e_st) \div 4) % 3 = 0

\* --------------------------------- claims on the serialization protocol
\* encodeDNG / dng_save has returned normally.
Succeeded == e_pc \in {"returned", "pushed"}

Repeat(what, n) == [i \in 1 .. n |-> what]

\* C18: every successful encode makes the serialization steps in this order, each
\* once: thumbnail IFD fields, thumbnail scanlines, write directory, main IFD
\* fields, main scanlines, checkpoint and sub-IFD offset, write directory, EXIF
\* directory created and filled, checkpoint and EXIF offset, write directory,
\* back to directory 0 with both offsets rewritten, write directory, unlink of
\* directory 2, close.
C18_SerializationOrder ==
    Succeeded =>
        e_log = << "open", "thumb_fields" >>
                  \o Repeat("thumb_scanline", ThumbRows(e_cfg))
                  \o << "TIFFWriteDirectory", "main_fields" >>
                  \o Repeat("main_scanline", MainRows(e_st))
                  \o << "TIFFCheckpointDirectory", "offset_subifd", "TIFFWriteDirectory",
                        "TIFFCreateEXIFDirectory", "exif_fields",
                        "TIFFCheckpointDirectory", "offset_exififd", "TIFFWriteDirectory",
                        "TIFFSetDirectory0", "patch_offsets", "TIFFWriteDirectory",
                        "TIFFUnlinkDirectory2", "TIFFClose" >>

\* C18 witness: an encodeDNG run with thumbnail rows and main rows has been pushed.
C18_Witness ==
    /\ e_pc = "pushed"
    /\ Count(e_log, "thumb_scanline") = 2
    /\ Count(e_log, "main_scanline") = 16
    /\ e_log[Len(e_log)] = "TIFFClose"

\* C19: on every successful encode the SubIFD and EXIFIFD values finally stored
\* in directory 0 are the directory offsets read after the respective
\* TIFFCheckpointDirectory calls, never the 0 placeholders, and directory 0 is
\* patched only after both offsets have been recorded.
C19_OffsetsPatchedAfterCheckpoints ==
    /\ Succeeded =>
          /\ e_st.dir0.SubIFD = e_st.dirOffset.main
          /\ e_st.dir0.EXIFIFD = e_st.dirOffset.exif
          /\ e_st.dir0.SubIFD # 0 /\ e_st.dir0.EXIFIFD # 0
    /\ \A i \in 1 .. Len(e_log) :
          /\ e_log[i] \in {"offset_subifd", "offset_exififd"} =>
                (i > 1 /\ e_log[i - 1] = "TIFFCheckpointDirectory")
          /\ e_log[i] = "patch_offsets" =>
                /\ \E j \in 1 .. (i - 1) : e_log[j] = "offset_subifd"
                /\ \E j \in 1 .. (i - 1) : e_log[j] = "offset_exififd"
                /\ e_st.offset_subifd # 0 /\ e_st.offset_exififd # 0

\* C19 witness: directory 0 of a finished encodeDNG run points at the two later
\* directories.
C19_Witness ==
    /\ e_pc = "returned"
    /\ e_cfg.variant = "encodeDNG"
    /\ e_st.dir0.SubIFD > 0
    /\ e_st.dir0.EXIFIFD > e_st.dir0.SubIFD

\* ------------------------------------------------ claims on the thumbnail
\* The thumbnail IFD's fields are set.
ThumbFieldsSet == e_pc \notin {"off", "start", "unpacked", "crashed"} /\ Len(e_log) >= 2

\* C21: the thumbnail IFD's width and height are the frame's width and height
\* shifted right by the thumbnail multiplier, whose value is 4.
C21_ThumbnailShiftIs4 ==
    ThumbFieldsSet =>
        /\ e_st.thumb.width = e_cfg.info.width \div 16
        /\ e_st.thumb.height = e_cfg.info.height \div 16

\* ------------------------------------------- claims on the block decompressor
DequantizeRan == d_pc = "done" /\ d_in.kind = "dequantize"

LastUnwrappedQ(qmode) ==
    CASE qmode = 0 -> 2207
      [] qmode = 1 -> 1023
      [] qmode = 2 -> 511
      [] OTHER -> 65535

UncompressRan == d_pc = "done" /\ d_in.kind = "uncompress"

\* C23: for each row y, uncompress reads only source bytes in
\* [y * stride, (y + 1) * stride), for every width, height and stride.
C23_ReadsInsideStrideBoundedRow ==
    UncompressRan =>
        \A y \in 0 .. d_in.info.height - 1 :
            /\ d_out.reads[y].from >= y * d_in.info.stride
            /\ d_out.reads[y].to <= (y + 1) * d_in.info.stride

\* the dequantization table T of the format, over the integers
DequantTable(q, qmode) ==
    CASE qmode = 0 -> IF q < 320 THEN 16 * q ELSE 32 * (q - 160)
      [] qmode = 1 -> 64 * q
      [] qmode = 2 -> 128 * q
      [] OTHER -> IF q < 94 THEN 256 * q ELSE Min(65535, 512 * (q - 47))

\* the word that sample i (from 1) of the destination is decoded from
WordOfSample(i) ==
    LET bsp == BufStridePixels(d_in.info)
        y == (i - 1) \div bsp
        x == (i - 1) % bsp
    IN  LoadWord(d_in, y * d_in.info.stride + 8 * (x \div 8), x % 2)

\* the quantized value q that sample i is decoded from
QOfSample(i) ==
    SubBlockQ(WordOfSample(i))[(((i - 1) % 8) \div 2) + 1]

\* C24: every sample the block decompressor stores equals
\* min(0xFFFF, T(q, qmode) + 2048) for the q decoded from its source word: no
\* 16-bit wrap-around occurs in dequantize or postprocess.
C24_SamplesFollowTableWithoutWrap ==
    UncompressRan =>
        \A i \in 1 .. Len(d_out.dest) :
            d_out.dest[i] =
                Min(65535, DequantTable(QOfSample(i), LowBits(WordOfSample(i)[1], 2)) + 2048)

\* a block whose first sample comes from the largest q of qmode 1 (638) and a
\* block whose first sample is clamped (qmode 3, q = 191)
C24_Witness ==
    /\ UncompressRan
    /\ \/ QOfSample(1) = 638 /\ LowBits(WordOfSample(1)[1], 2) = 1 /\ d_out.dest[1] = 42880
       \/ QOfSample(1) = 191 /\ LowBits(WordOfSample(1)[1], 2) = 3 /\ d_out.dest[1] = 65535

\* --------------------------------------------------------- claims on Matrix
\* the entry of row i, column j (from 0) of a
Entry(a, i, j) == a[3 * i + j + 1]

\* the cofactor of row i, column j: the signed determinant of what is left of a
\* when row i and column j are deleted
Cofactor(a, i, j) ==
    LET r1 == IF i = 0 THEN 1 ELSE 0
        r2 == IF i = 2 THEN 1 ELSE 2
        c1 == IF j = 0 THEN 1 ELSE 0
        c2 == IF j = 2 THEN 1 ELSE 2
        minor == Entry(a, r1, c1) * Entry(a, r2, c2) - Entry(a, r1, c2) * Entry(a, r2, c1)
    IN  IF (i + j) % 2 = 0 THEN minor ELSE 0 - minor

\* C25: for every 3x3 matrix M, Adj() is the transpose of the cofactor matrix,
\* M * M.Adj() = Det(M) * I, and M * M.Inv() = I when the determinant is 1 or -1.
C25_AdjugateAndInverse ==
    m_pc = "done" =>
        /\ \A i \in 0 .. 2, j \in 0 .. 2 :
              /\ Entry(m_out.Adj, i, j) = Cofactor(m_in, j, i)
              /\ Entry(m_out.MAdj, i, j) = (IF i = j THEN m_out.Det ELSE 0)
        /\ m_out.Det \in {1, -1} => m_out.MInv = Identity

\* an invertible matrix with determinant -1 that is not symmetric, is not its own
\* inverse, and whose adjugate differs from its cofactor matrix
C25_Witness ==
    /\ m_pc = "done"
    /\ m_out.Det = -1
    /\ m_out.MInv = Identity
    /\ m_out.Adj # m_out.C
    /\ m_in # m_out.T
    /\ Matrix_Mul(m_in, m_in) # Identity

\* ------------------------------------------- claims on the 16-bit buffer
\* C26: every packed unpack routine stores the reconstructed native value in the
\* 16-bit buffer: for one 12-bit packed frame the buffer holds the frame's native
\* samples and is the same whether force_8_bit, force_10_bit or neither is set.
C26_NativeBufferSameForEveryFlag ==
    u_pc = "done" /\ u_in.bits = 12 =>
        /\ u_out.dest16 = u_in.vals
        /\ u_out.dest16 = unpack_12bit(u_in.src, u_in.info).dest16

\* ------------------------------------------ claims on the main image rows
\* a row of the main image has been written
MainRowWritten == e_pc \in {"main_rows", "exif"} /\ e_st.row > 0 /\ e_st.BitsPerSample > 0

\* the first byte of buf8bit the unpack routine stored for row y: the routines
\* advance dest without a gap from row to row
DestRowStart(y) == y * (e_st.extent.destEnd \div e_cfg.info.height)

\* C27: the scanline handed to TIFFWriteScanline for row y starts at the first
\* byte the unpack routine wrote for row y plus the byte offset of pixel startX,
\* and the whole scanline lies inside the byte buffer.
C27_ScanlineStartsAtUnpackedRow ==
    MainRowWritten =>
        /\ e_st.scan.from = DestRowStart(e_st.scan.y) + (RoiOffset4(e_st) \div 4)
        /\ e_st.scan.to <= e_st.buf8bitLen

\* C28: every byte written to the main IFD was stored in the byte buffer by the
\* unpack step.
C28_MainBytesCameFromUnpack ==
    MainRowWritten => e_st.scan.to <= e_st.extent.destEnd

\* ------------------------------------------------ claims on the error path
\* C30: on the error path of encodeDNG no write reaches the TIFF memory sink
\* after free(mem_buffer.data) has run: no later call, in particular the flush
\* TIFFClose makes through tiff_write, uses mem_buffer.data.
C30_NoSinkWriteAfterFree ==
    /\ \A i \in 1 .. Len(e_log) :
          e_log[i] = "free" => \A j \in (i + 1) .. Len(e_log) : e_log[j] # "tiff_write"
    /\ e_pc # "off" => e_st.writesAfterFree = 0

\* --------------------------------------------------- claims on NullEncoder
\* C29: NullEncoder delivers every buffer passed to EncodeBuffer exactly once and
\* in submission order, and its output thread never exits while output_queue_ is
\* non-empty.
C29_NullEncoderDeliversAll ==
    /\ \A i \in 1 .. Len(n_delivered) : n_delivered[i] = i
    /\ n_pc = "exited" => n_queue = <<>> /\ Len(n_delivered) = n_submitted

\* ---------------------------------------- claims on the thumbnail's samples
\* a thumbnail row has been built from the 16-bit buffer of a format that is
\* not compressed
ThumbRowBuilt ==
    /\ e_pc \in {"thumb_rows", "main_fields"}
    /\ e_st.row > 0
    /\ ~FormatOf(e_cfg).compressed

\* the index of the 16-bit buffer at which the unpack routine stored pixel (x, y):
\* the routines advance dest16Bit without a gap by the pixels they decode per row
StoredAt(x, y) == y * e_st.extent.rowPixels + x

\* C31: the index at which the thumbnail generator reads pixel (x, y) from the
\* 16-bit buffer is the index at which the unpack routine stored pixel (x, y),
\* and every index the thumbnail loop reads lies inside the 16-bit buffer.
C31_ThumbnailReadsStoredPixels ==
    ThumbRowBuilt =>
        \A i \in 1 .. Len(e_st.thumbOffs) :
            LET off == e_st.thumbOffs[i]
                m == ThumbShift(e_cfg.variant)
                px == Shl(i - 1, m)
                py == Shl(e_st.row - 1, m)
            IN  /\ px + 1 < e_st.extent.rowPixels
                /\ off = StoredAt(px, py)
                /\ off + 1 = StoredAt(px + 1, py)
                /\ off + e_st.buf_stride_pixels = StoredAt(px, py + 1)
                /\ off + e_st.buf_stride_pixels + 1 = StoredAt(px + 1, py + 1)
                /\ off + e_st.buf_stride_pixels + 1 < e_st.buf16BitLen

\* ------------------------------------------- claims on the level tags
\* C32: the WhiteLevel and the four BlackLevel values written to the main IFD
\* are representable at the BitsPerSample written to the same IFD, and every
\* black level is below the white level.  (Black levels are numerators over
\* 65536: the first comparison rounds them up, the second down.)
C32_LevelsFitBitsPerSample ==
    e_st.BitsPerSample > 0 =>
        /\ e_st.WhiteLevel <= (2 ^ e_st.BitsPerSample) - 1
        /\ \A i \in 1 .. 4 :
              /\ (e_st.black_levels[i] + 65535) \div 65536 <= (2 ^ e_st.BitsPerSample) - 1
              /\ e_st.black_levels[i] \div 65536 < e_st.WhiteLevel


\* ---------------------------------------------------------------- C33
CallsAt(what) == {i \in 1 .. Len(loop.log) : loop.log[i] = what}

\* C33: in the event loop setStreamInfo is called before the first
\* EncodeBuffer call, whatever messages Wait returns.
C33_StreamInfoBeforeFirstEncode ==
    \A i \in CallsAt("EncodeBuffer") : \E j \in CallsAt("setStreamInfo") : j < i

\* ---------------------------------------------------------------- C34
LastCalls(n) == SubSeq(loop.log, Len(loop.log) - n + 1, Len(loop.log))

\* C34 (state part): with total_frames = N > 0 every EncodeBuffer call is a
\* counted frame and at most N are made; a loop that ended on total_frames
\* made exactly N, the last of them right before StopCamera, StopEncoder.
FramesCounted ==
    (loop.pc # "off" /\ loop.total_frames > 0) =>
        /\ Cardinality(CallsAt("EncodeBuffer")) = loop.framesCaptured
        /\ loop.framesCaptured <= loop.total_frames
        /\ loop.why = "total_frames" =>
              /\ loop.framesCaptured = loop.total_frames
              /\ LastCalls(3) = <<"EncodeBuffer", "StopCamera", "StopEncoder">>
        /\ loop.pc = "wait" => loop.framesCaptured < loop.total_frames

\* C34 (step part): a filtered frame (warm-up, capture_interval,
\* every_nth_frame) changes neither framesCaptured nor the calls made,
\* except for the registration of the stream info at count 0.
SkippedNotCounted ==
    (L_WarmUp \/ L_SkipInterval \/ L_SkipNth) =>
        /\ loop'.framesCaptured = loop.framesCaptured
        /\ CallsAt("EncodeBuffer")' = CallsAt("EncodeBuffer")
        /\ loop'.pc = "wait"

BufferHoldsWrites ==
    (tbuf.pc # "off" /\ ~tbuf.failed) =>
        /\ tbuf.size <= tbuf.capacity
        /\ tbuf.size = tbuf.maxEnd
        /\ tbuf.data = tbuf.stored

\* C35 (step part): size does not decrease; a write puts its bytes at
\* [position, position + n), moves position to position + n and touches no
\* other byte.
WriteAdvances ==
    /\ (tbuf.pc = "open" /\ ~tbuf'.failed) => tbuf'.size >= tbuf.size
    /\ T_Write =>
          /\ tbuf'.position \in tbuf.position .. (tbuf.position + MaxWrite)
          /\ tbuf'.position <= tbuf'.capacity
          /\ \A o \in Offsets :
                IF o >= tbuf.position /\ o < tbuf'.position
                THEN tbuf'.data[o] \in ByteValues
                ELSE tbuf'.data[o] = tbuf.data[o]

\* C35: the memory buffer keeps what was written to it.
C35_MemoryBufferKeepsWrites == []BufferHoldsWrites /\ [][WriteAdvances]_vars

\* Closed after a seek past the end, a write there, a seek back and a
\* shorter write that changed a byte, in a buffer that had to grow.
C35_Witness ==
    /\ tbuf.pc = "closed" /\ ~tbuf.failed /\ tbuf.overwritten
    /\ tbuf.size > tbuf.position
    /\ tbuf.capacity > ExtraSpace
    /\ \E o \in Offsets : o < tbuf.size /\ tbuf.data[o] = "U"

\* ---------------------------------------------------------------- C36
SamplesInRange == \A i \in 1 .. 4 : grey.s[i] <= (2 ^ grey.bits) - 1

\* C36: with samples of at most 2^bits - 1 the left shift loses no bit, the
\* grey value is at most 255 and the 8-bit channel stores it unchanged.
C36_ThumbnailGreyFitsByte ==
    (grey.pc # "off" /\ SamplesInRange) =>
        /\ ~grey.carried
        /\ grey.pc \in {"store", "stored"} => grey.grey <= 255
        /\ grey.pc = "stored" => grey.channel = grey.grey

\* Four full-scale 16-bit samples: the largest sum and the largest shift.
C36_Witness ==
    /\ grey.pc = "stored" /\ grey.bits = 16 /\ SamplesInRange
    /\ \A i \in 1 .. 4 : grey.s[i] = 65535
    /\ grey.channel = 255

\* ---------------------------------------------------------------- C37
\* C37: every read of lamp_pattern_vec in setNextLampColor is at an index
\* below its size, and consecutive reads go through the entries cyclically.
C37_LampPatternReadInRange ==
    (gpio.pc # "off" /\ gpio.lastRead # -1) =>
        /\ gpio.lastRead < Len(gpio.lamp_pattern_vec)
        /\ gpio.prevRead # -1 =>
              gpio.lastRead = (gpio.prevRead + 1) % Len(gpio.lamp_pattern_vec)

\* ---------------------------------------------------------------- C38
\* C38: the ISO step changes the data of no entry but ISO_SPEED_RATINGS,
\* whichever of analogue_gain and digital_gain the metadata holds.
C38_IsoTouchesOnlyIsoEntry ==
    exif.pc = "rest" =>
        \A tag \in ExifTags \ {"ISO_SPEED_RATINGS"} : exif.data[tag] = exif.beforeIso[tag]

\* ---------------------------------------------------------------- C39
\* C39: no directory receives more than max_directory_size buffers.
C39_DirectoryHoldsAtMostMax ==
    fout.pc # "off" =>
        \A d \in Directories : fout.written[d] <= fout.max_directory_size

\* ---------------------------------------------------------------- C40
InSeq(q, i) == Cardinality({k \in 1 .. Len(q) : q[k] = i})

\* The number of places that hold frame i: encode_queue_, an encode worker
\* that took it, a worker's output queue, the output thread, or the record
\* of the frames delivered or failed.
Holders(i) ==
    InSeq(encode_queue_, i)
    + Cardinality({n \in Workers : encPc[n] = "encoding" /\ encode_item[n] = i})
    + Cardinality({n \in Workers : InSeq(output_queue_[n], i) > 0})
    + (IF outPc = "got_item" /\ outItem = i THEN 1 ELSE 0)
    + InSeq(delivered, i)
    + (IF i \in failed THEN 1 ELSE 0)

\* C40: encode_queue_ holds consecutive increasing indices (the last one
\* index_ - 1), every frame is held in exactly one place (so it was taken by
\* exactly one worker), and each worker queue is strictly increasing.
C40_QueuesOrderedItemsTakenOnce ==
    /\ \A k \in 1 .. (Len(encode_queue_) - 1) : encode_queue_[k + 1] = encode_queue_[k] + 1
    /\ encode_queue_ # <<>> => encode_queue_[Len(encode_queue_)] = index_ - 1
    /\ \A i \in 0 .. (index_ - 1) : Holders(i) = 1
    /\ \A n \in Workers : \A j, k \in 1 .. Len(output_queue_[n]) :
          j < k => output_queue_[n][j] < output_queue_[n][k]

\* One worker still encodes frame 0 while another has taken and pushed two
\* later frames, and a further frame waits in encode_queue_.
C40_Witness ==
    /\ \E n \in Workers : Len(output_queue_[n]) >= 2
    /\ \E m \in Workers : encPc[m] = "encoding" /\ encode_item[m] = 0
    /\ index_ = MaxFrames
====
